---- MODULE Spec2Model ----
(***************************************************************************)
(* Verification model of the java-static-audit analyzer:                   *)
(*   analyzer/java_ast.py  field-usage resolvers, LCOM, parser fallback    *)
(*   analyzer/report.py    normalisation and traffic-light classification  *)
(*   run.py                the per-file batch loop                         *)
(* Strings that the code inspects character by character are sequences of  *)
(* one-character strings.  A Python value that may be None is a sequence   *)
(* of length at most one: None is <<>> and the value v is <<v>>.           *)
(***************************************************************************)
EXTENDS Integers, Sequences, FiniteSets, TLC

VARIABLES
    body, fields, usedPrimary, usedFallback,   \* resolver comparison
    cls, strategy, rows, verdicts,             \* cohesion of one type declaration
    sevIn, sevOut,                             \* _class_severity as a function
    pc, todo, limit, tsAvailable, cur, calls,  \* run.py main loop and the adapter
    res, raised, files_rows, class_rows, findings_rows, count,
    rule_severity, dff, dff2, solid_counts,    \* report.py tables over findings
    java_source, unit, blocks, findings,       \* the text functions: the text,
    metrics, loc                               \* what it was written from, results

resolverVars == <<body, fields, usedPrimary, usedFallback>>
cohesionVars == <<cls, strategy, rows, verdicts>>
severityVars == <<sevIn, sevOut>>
mainVars     == <<pc, todo, limit, tsAvailable, cur, calls,
                  res, raised, files_rows, class_rows, findings_rows, count>>
reportVars   == <<rule_severity, dff, dff2, solid_counts>>
textVars     == <<java_source, unit, blocks, findings, metrics, loc>>
vars == <<resolverVars, cohesionVars, severityVars, mainVars, reportVars, textVars>>

None      == <<>>
Some(v)   == <<v>>
IsNone(o) == o = <<>>
Val(o)    == o[1]

\* ---------------------------------------------------------------- bounds
MaxPath    == 2   \* identifiers in one dotted expression (after an optional this.)
MaxBody    == 1   \* expressions in one method body of the resolver comparison
MaxMethods == 3   \* method declarations in one class
MaxM       == 6   \* largest 'methods' argument given to _class_severity
MaxFiles   == 2   \* files the batch loop walks

\* ------------------------------------------------------------ small helpers
Max(a, b) == IF a >= b THEN a ELSE b
Last(s)   == s[Len(s)]
Front(s)  == SubSeq(s, 1, Len(s) - 1)
SeqsUpTo(S, n) == UNION {[1..k -> S] : k \in 0..n}

\* ------------------------------------------------- Java expressions (input)
\* An expression of a method body: a (possibly this-qualified, possibly
\* dotted) name, either referenced (kind "ref": x, o.x, this.x, this.o.x) or
\* invoked (kind "call": m(), o.m(), this.m(), this.o.m()); path holds the
\* identifiers in source order, the last one being the member or method name.
Ident == {"x", "y", "o"}
Expr  == [kind : {"ref", "call"}, this : BOOLEAN,
          path : UNION {[1..k -> Ident] : k \in 1..MaxPath}]
FieldSets == SUBSET {"x", "y"}

\* ------------------------------------------ javalang tree of an expression
\* javalang.parse.parse: a name not starting with this becomes ONE node whose
\* member is the last identifier and whose qualifier is the others joined by
\* "." (the empty string when there are none); this.a.b becomes a This node
\* with one selector per identifier, each selector's qualifier being None.
\* A qualifier string is kept as the sequence of its dot-separated segments.
JlNode(type, member, qualifier) ==
    [type |-> type, member |-> member, qualifier |-> qualifier]

JlType(e, i) ==
    IF e.kind = "call" /\ i = Len(e.path) THEN "MethodInvocation"
                                           ELSE "MemberReference"

JavalangNodes(e) ==
    IF e.this
    THEN {JlNode("This", "", None)}
         \cup {JlNode(JlType(e, i), e.path[i], None) : i \in 1..Len(e.path)}
    ELSE {JlNode(JlType(e, Len(e.path)), Last(e.path), Some(Front(e.path)))}

\* the nodes _walk_ast yields for a body (a list of statements)
WalkAst(b) ==
    UNION {{JlNode("StatementExpression", "", None)} \cup JavalangNodes(b[i])
           : i \in 1..Len(b)}

\* "if qual": neither None nor the empty string
Truthy(q) == ~IsNone(q) /\ Val(q) # <<>>
\* str(qual).split(".")[-1]
LastSegment(q) == Last(Val(q))

UsedOfJlNode(node, candidate_fields) ==
    (IF node.type = "MemberReference"
     THEN (IF node.member \in candidate_fields
              /\ (IsNone(node.qualifier) \/ Val(node.qualifier) = <<"this">>)
           THEN {node.member} ELSE {})
          \cup
          (IF Truthy(node.qualifier) /\ LastSegment(node.qualifier) \in candidate_fields
           THEN {LastSegment(node.qualifier)} ELSE {})
     ELSE {})
    \cup
    (IF node.type = "MethodInvocation"
        /\ Truthy(node.qualifier) /\ LastSegment(node.qualifier) \in candidate_fields
     THEN {LastSegment(node.qualifier)} ELSE {})

\* _used_members_in_method: meth_body is None (no body) or a list of statements
UsedMembersInMethod(meth_body, candidate_fields) ==
    IF IsNone(meth_body) \/ Val(meth_body) = <<>>
    THEN {}
    ELSE UNION {UsedOfJlNode(n, candidate_fields) : n \in WalkAst(Val(meth_body))}

\* --------------------------------------- tree-sitter tree of an expression
TsNode(type, text, children) ==
    [type |-> type, text |-> text, children |-> children]
TsLeaf(type, text) == TsNode(type, text, <<>>)

\* the object a.b.c (this.a.b when this): nested field_access, left to right
RECURSIVE TsObject(_, _)
TsObject(this, segs) ==
    IF segs = <<>> THEN TsLeaf("this", "this")
    ELSE IF ~this /\ Len(segs) = 1 THEN TsLeaf("identifier", segs[1])
    ELSE TsNode("field_access", "",
                <<TsObject(this, Front(segs)), TsLeaf(".", "."),
                  TsLeaf("identifier", Last(segs))>>)

TsExpr(e) ==
    IF e.kind = "ref" THEN TsObject(e.this, e.path)
    ELSE IF ~e.this /\ Len(e.path) = 1
    THEN TsNode("method_invocation", "",
                <<TsLeaf("identifier", e.path[1]),
                  TsLeaf("argument_list", "()")>>)
    ELSE TsNode("method_invocation", "",
                <<TsObject(e.this, Front(e.path)), TsLeaf(".", "."),
                  TsLeaf("identifier", Last(e.path)),
                  TsLeaf("argument_list", "()")>>)

TsBlock(b) ==
    TsNode("block", "",
           [i \in 1..Len(b) |->
               TsNode("expression_statement", "", <<TsExpr(b[i])>>)])

IdentChildren(x) ==
    SelectSeq(x.children, LAMBDA ch : ch.type = "identifier")

UsedOfTsNode(x, flds) ==
    IF x.type = "field_access"
    THEN {IdentChildren(x)[i].text : i \in 1..Len(IdentChildren(x))} \cap flds
    ELSE IF x.type = "method_invocation" /\ IdentChildren(x) # <<>>
    THEN {IdentChildren(x)[1].text} \cap flds
    ELSE {}

RECURSIVE TsWalkUsed(_, _)
TsWalkUsed(x, flds) ==
    UsedOfTsNode(x, flds)
    \cup UNION {TsWalkUsed(x.children[i], flds) : i \in 1..Len(x.children)}

\* used_fields: bnode is None (a declaration without a block), or a block
UsedFields(bnode, flds) ==
    IF IsNone(bnode) THEN {} ELSE TsWalkUsed(Val(bnode), flds)

\* ------------------------------------------------ compilation units (input)
\* A type declaration of a source file: kind "class" or "interface", its name
\* (characters), its declared field names and its method declarations in
\* source order; a method's body is None for a signature without a body.
Str_OrderProcessor == <<"O", "r", "d", "e", "r", "P", "r", "o", "c", "e", "s", "s", "o", "r">>
Str_UserRepository == <<"U", "s", "e", "r", "R", "e", "p", "o", "s", "i", "t", "o", "r", "y">>
FieldNames   == {"x", "y"}
MethodNames  == {"a", "b", "c"}
ThisRef(f)   == [kind |-> "ref", this |-> TRUE, path |-> <<f>>]
ClassBodies  == {None, Some(<<>>), Some(<<ThisRef("x")>>), Some(<<ThisRef("y")>>)}
MethodDecl   == [name : MethodNames, body : ClassBodies]
TypeDecl     == [kind : {"class", "interface"},
                 name : {Str_OrderProcessor, Str_UserRepository},
                 fields : {FieldNames},
                 methods : SeqsUpTo(MethodDecl, MaxMethods)]

\* ------------------------------------------------------------ Python dict
\* A dict is the sequence of its items in insertion order; assigning to a key
\* that is present replaces its value and keeps its position.
DictKeys(d) == [i \in 1..Len(d) |-> d[i].k]
DictSet(d, k, v) ==
    IF \E i \in 1..Len(d) : d[i].k = k
    THEN [i \in 1..Len(d) |-> IF d[i].k = k THEN [k |-> k, v |-> v] ELSE d[i]]
    ELSE Append(d, [k |-> k, v |-> v])

\* ---------------------------------------------------- pairwise LCOM loops
\* the value of every method-name key of the dict is a field-usage set
PairsSharing(mfu) ==
    Cardinality({p \in (1..Len(mfu)) \X (1..Len(mfu)) :
                    p[1] < p[2] /\ mfu[p[1]].v \cap mfu[p[2]].v # {}})
PairsNotSharing(mfu) ==
    Cardinality({p \in (1..Len(mfu)) \X (1..Len(mfu)) :
                    p[1] < p[2] /\ mfu[p[1]].v \cap mfu[p[2]].v = {}})
\* fault variants of Lcom: the floor at 0 forgotten; the sharing pairs not
\* subtracted
LcomUnfloored(mfu)    == PairsNotSharing(mfu) - PairsSharing(mfu)
LcomDisjointOnly(mfu) == Max(PairsNotSharing(mfu), 0)
Lcom(mfu) == Max(PairsNotSharing(mfu) - PairsSharing(mfu), 0)

ClassRow(filename, cname, mfu, flds) ==
    [file |-> filename, class |-> cname, methods |-> Len(DictKeys(mfu)),
     lcom |-> Some(Lcom(mfu)), fields |-> flds]

Str_PARSE_ERROR == <<"<", "P", "A", "R", "S", "E", "_", "E", "R", "R", "O", "R", ">">>
ErrorRow(filename, message) ==
    [file |-> filename, class |-> Str_PARSE_ERROR, methods |-> 0,
     lcom |-> None, error |-> message]

\* ------------------------------------------- primary strategy (javalang)
\* _method_bodies: the method declarations whose body is not None
MethodBodies(type_decl) ==
    SelectSeq(type_decl.methods, LAMBDA m : ~IsNone(m.body))

\* method_field_use[m.name] = used, for m in methods
RECURSIVE MethodFieldUse(_, _, _)
MethodFieldUse(methods, flds, acc) ==
    IF methods = <<>> THEN acc
    ELSE MethodFieldUse(Tail(methods), flds,
             DictSet(acc, Head(methods).name,
                     UsedMembersInMethod(Head(methods).body, flds)))

RECURSIVE ClassesWithLcomRows(_, _)
ClassesWithLcomRows(types, filename) ==
    IF types = <<>> THEN <<>>
    ELSE LET t == Head(types) IN
         (IF t.kind = "class"
          THEN <<ClassRow(filename, t.name,
                          MethodFieldUse(MethodBodies(t), t.fields, <<>>),
                          t.fields)>>
          ELSE <<>>)
         \o ClassesWithLcomRows(Tail(types), filename)

\* What a call does: it returns rows, or an exception leaves it (raised).
Returned(rs) == [raised |-> FALSE, rows |-> rs]
Raised       == [raised |-> TRUE, rows |-> <<>>]

\* classes_with_lcom.  primary is what the javalang side does with the text:
\* "ok" (parsed), "parse_error" (javalang.parse.parse raises, caught at line
\* 62) or "raise" (an exception outside that try leaves the function).
ClassesWithLcom(types, primary, filename) ==
    IF primary = "raise" THEN Raised
    ELSE IF primary = "parse_error"
    THEN Returned(<<ErrorRow(filename, "javalang")>>)
    ELSE Returned(ClassesWithLcomRows(types, filename))

\* ------------------------------------------ fallback strategy (tree-sitter)
\* The concrete syntax tree tree-sitter-java builds for a compilation unit.
RECURSIVE SetToSeq(_)
SetToSeq(S) ==
    IF S = {} THEN <<>>
    ELSE LET e == CHOOSE e \in S : TRUE IN <<e>> \o SetToSeq(S \ {e})

TsFieldDecl(f) ==
    TsNode("field_declaration", "",
           <<TsLeaf("integral_type", "int"),
             TsNode("variable_declarator", "", <<TsLeaf("identifier", f)>>),
             TsLeaf(";", ";")>>)

TsMethodDecl(m) ==
    TsNode("method_declaration", "",
           <<TsLeaf("void_type", "void"), TsLeaf("identifier", m.name),
             TsLeaf("formal_parameters", "()")>>
           \o (IF IsNone(m.body) THEN <<TsLeaf(";", ";")>>
                                 ELSE <<TsBlock(Val(m.body))>>))

TsTypeDecl(t) ==
    TsNode(t.kind \o "_declaration", "",
           <<TsLeaf(t.kind, t.kind), TsLeaf("identifier", t.name),
             TsNode(t.kind \o "_body", "",
                    [i \in 1..Cardinality(t.fields) |->
                        TsFieldDecl(SetToSeq(t.fields)[i])]
                    \o [i \in 1..Len(t.methods) |-> TsMethodDecl(t.methods[i])])>>)

TsProgram(types) ==
    TsNode("program", "", [i \in 1..Len(types) |-> TsTypeDecl(types[i])])

\* the nodes in the order "n = stack.pop(); stack.extend(reversed(n.children))"
\* visits them: the node, then each child's subtree, left to right
RECURSIVE TsPreorder(_)
RECURSIVE TsPreorderAll(_)
TsPreorder(n) == <<n>> \o TsPreorderAll(n.children)
TsPreorderAll(ns) ==
    IF ns = <<>> THEN <<>> ELSE TsPreorder(Head(ns)) \o TsPreorderAll(Tail(ns))

ChildrenOfType(n, type) == SelectSeq(n.children, LAMBDA ch : ch.type = type)
\* "for ch in n.children: if ch.type == type: v = ch": the last such child
LastChildOfType(n, type) ==
    IF ChildrenOfType(n, type) = <<>> THEN None
    ELSE Some(Last(ChildrenOfType(n, type)))

\* fields: identifiers of the variable declarators of every field_declaration
TsFields(cbody) ==
    LET decls == SelectSeq(TsPreorder(cbody), LAMBDA n : n.type = "field_declaration")
        vds(d) == ChildrenOfType(d, "variable_declarator")
    IN UNION {UNION {{ChildrenOfType(vds(decls[i])[j], "identifier")[k].text
                       : k \in 1..Len(ChildrenOfType(vds(decls[i])[j], "identifier"))}
                     : j \in 1..Len(vds(decls[i]))}
              : i \in 1..Len(decls)}

\* methods: (mname, mbody) of every method_declaration that has a name
TsMethods(cbody) ==
    LET decls == SelectSeq(TsPreorder(cbody), LAMBDA n : n.type = "method_declaration")
        named == SelectSeq(decls, LAMBDA n : ~IsNone(LastChildOfType(n, "identifier")))
    IN [i \in 1..Len(named) |->
           [name  |-> Val(LastChildOfType(named[i], "identifier")).text,
            mbody |-> LastChildOfType(named[i], "block")]]

\* mf = {m: used_fields(b) for (m, b) in methods}
RECURSIVE TsMethodFieldUse(_, _, _)
TsMethodFieldUse(methods, flds, acc) ==
    IF methods = <<>> THEN acc
    ELSE TsMethodFieldUse(Tail(methods), flds,
             DictSet(acc, Head(methods).name,
                     UsedFields(Head(methods).mbody, flds)))

Str_anon == <<"<", "a", "n", "o", "n", ">">>
RECURSIVE TsClassRows(_, _)
TsClassRows(classes, filename) ==
    IF classes = <<>> THEN <<>>
    ELSE LET c     == Head(classes)
             cname == LastChildOfType(c, "identifier")
             cbody == LastChildOfType(c, "class_body")
         IN (IF IsNone(cbody) THEN <<>>
             ELSE <<ClassRow(filename,
                             IF IsNone(cname) THEN Str_anon ELSE Val(cname).text,
                             TsMethodFieldUse(TsMethods(Val(cbody)),
                                              TsFields(Val(cbody)), <<>>),
                             TsFields(Val(cbody)))>>)
            \o TsClassRows(Tail(classes), filename)

TreeSitterRows(types, filename) ==
    TsClassRows(SelectSeq(TsPreorder(TsProgram(types)),
                          LAMBDA n : n.type = "class_declaration"),
                filename)

\* fault variant: without the try/except around the body
TreeSitterUncaught(types, works, filename) ==
    IF ~works THEN Raised ELSE Returned(TreeSitterRows(types, filename))

\* _classes_with_lcom_tree_sitter: works is FALSE when anything inside its
\* try raises, which the except at line 196 turns into an error row
ClassesWithLcomTreeSitter(types, works, filename) ==
    IF ~works THEN Returned(<<ErrorRow(filename, "tree-sitter-fallback-failed")>>)
    ELSE Returned(TreeSitterRows(types, filename))

\* ----------------------------------------------------- report.py: scoring
\* A float is kept as the exact fraction num/den (den > 0); den = 0 stands for
\* the ZeroDivisionError a division by zero raises.  For the integers of the
\* model the double nearest to lcom/denom compares with the doubles 0.8, 0.4,
\* 0.0 and 1.0 exactly as the fractions do.
Frac(n, d)  == [num |-> n, den |-> d]
FLess(a, b) == a.num * b.den < b.num * a.den
FGeq(a, b)  == a.num * b.den >= b.num * a.den
FZero == Frac(0, 1)
FOne  == Frac(1, 1)
FMin(a, b) == IF FLess(b, a) THEN b ELSE a
FMax(a, b) == IF FLess(a, b) THEN b ELSE a
\* n / d; with d = 0 the result has den = 0, the ZeroDivisionError
FDiv(n, d) == Frac(n, d)

RED_THR == Frac(80, 100)
YEL_THR == Frac(40, 100)
RED    == "Red"
YELLOW == "Yellow"
GREEN  == "Green"

\* fault variant: the quotient returned without max(0.0, min(1.0, val))
NormalizedUnclamped(methods, lcom) ==
    IF IsNone(methods) \/ IsNone(lcom) THEN FZero
    ELSE LET m == Val(methods) IN
         IF m < 2 THEN FZero
         ELSE LET denom == (m * (m - 1)) \div 2 IN
              IF denom <= 0 THEN FZero
              ELSE FDiv(Val(lcom), denom)

\* _normalized_lack_of_cohesion
NormalizedLackOfCohesion(methods, lcom) ==
    IF IsNone(methods) \/ IsNone(lcom) THEN FZero
    ELSE LET m == Val(methods) IN
         IF m < 2 THEN FZero
         ELSE LET denom == (m * (m - 1)) \div 2 IN
              IF denom <= 0 THEN FZero
              ELSE FMax(FZero, FMin(FOne, FDiv(Val(lcom), denom)))

\* re.IGNORECASE search of EXEMPTION_PATTERNS in a string
UPPER == <<"A", "B", "C", "D", "E", "F", "G", "H", "I", "J", "K", "L", "M", "N", "O", "P", "Q", "R", "S", "T", "U", "V", "W", "X", "Y", "Z">>
LOWER == <<"a", "b", "c", "d", "e", "f", "g", "h", "i", "j", "k", "l", "m", "n", "o", "p", "q", "r", "s", "t", "u", "v", "w", "x", "y", "z">>
Lower(c) == IF \E i \in 1..Len(UPPER) : UPPER[i] = c
            THEN LOWER[CHOOSE i \in 1..Len(UPPER) : UPPER[i] = c]
            ELSE c
MatchesAt(pat, s, i) ==
    /\ i + Len(pat) - 1 <= Len(s)
    /\ \A k \in 1..Len(pat) : Lower(s[i + k - 1]) = Lower(pat[k])
SearchIgnoreCase(pat, s) == \E i \in 1..Len(s) : MatchesAt(pat, s, i)

EXEMPTION_PATTERNS ==
    {<<"A", "s", "p", "e", "c", "t">>,
     <<"S", "t", "a", "t", "e">>,
     <<"N", "u", "l", "l", "O", "b", "j", "e", "c", "t">>,
     <<"R", "e", "p", "o", "s", "i", "t", "o", "r", "y">>,
     <<"L", "i", "s", "t", "e", "n", "e", "r">>}
ExemptionSearch(class_name) ==
    LET s == IF IsNone(class_name) THEN <<>> ELSE Val(class_name)
    IN \E pat \in EXEMPTION_PATTERNS : SearchIgnoreCase(pat, s)

NOTE_DOWNGRADED ==
    "Pattern exception (type tends to have low cohesion); downgraded by one level."

\* fault variant: > in place of >=
ThresholdSeverityStrict(nlc) ==
    IF FLess(RED_THR, nlc) THEN RED
    ELSE IF FLess(YEL_THR, nlc) THEN YELLOW
    ELSE GREEN

\* the if/elif/else on nlc of _class_severity
ThresholdSeverity(nlc) ==
    IF FGeq(nlc, RED_THR) THEN RED
    ELSE IF FGeq(nlc, YEL_THR) THEN YELLOW
    ELSE GREEN

\* fault variant: every exempt class ends Green
DowngradeTwoLevels(sev, class_name) ==
    IF ExemptionSearch(class_name) /\ sev # GREEN
    THEN [sev |-> GREEN, note |-> NOTE_DOWNGRADED]
    ELSE [sev |-> sev, note |-> ""]

\* the exemption branch of _class_severity
Downgrade(sev, class_name) ==
    IF ExemptionSearch(class_name) /\ sev # GREEN
    THEN [sev |-> IF sev = RED THEN YELLOW ELSE GREEN, note |-> NOTE_DOWNGRADED]
    ELSE [sev |-> sev, note |-> ""]

\* _class_severity: (sev, note, nlc)
ClassSeverity(methods, lcom, class_name) ==
    LET nlc == NormalizedLackOfCohesion(methods, lcom)
        d   == Downgrade(ThresholdSeverity(nlc), class_name)
    IN [sev |-> d.sev, note |-> d.note, nlc |-> nlc]

\* "int(r.methods or 0), float(r.lcom or 0.0), str(r.class)" of
\* _augment_class_df, then _class_severity
AugmentClassRow(r) ==
    ClassSeverity(Some(r.methods),
                  IF IsNone(r.lcom) THEN Some(0) ELSE r.lcom,
                  Some(r.class))

\* =========================================================================
\* Specification SpecResolver: both resolvers on the same method body
\* =========================================================================
ResolverIdle ==
    body = <<>> /\ fields = {} /\ usedPrimary = None /\ usedFallback = None
CohesionIdle ==
    cls = None /\ strategy = "" /\ rows = None /\ verdicts = None
SeverityIdle == sevIn = None /\ sevOut = None
MainIdle ==
    /\ pc = "idle" /\ todo = 0 /\ limit = 0 /\ tsAvailable = FALSE
    /\ cur = None /\ calls = <<>> /\ res = <<>> /\ raised = FALSE
    /\ files_rows = <<>> /\ class_rows = <<>> /\ findings_rows = <<>>
    /\ count = 0
ReportIdle ==
    rule_severity = <<>> /\ dff = None /\ dff2 = None /\ solid_counts = None
TextIdle ==
    /\ java_source = <<>> /\ unit = None /\ blocks = None /\ findings = None
    /\ metrics = None /\ loc = None

InitResolver ==
    /\ body \in SeqsUpTo(Expr, MaxBody)
    /\ fields \in FieldSets
    /\ usedPrimary = None /\ usedFallback = None
    /\ CohesionIdle /\ SeverityIdle /\ MainIdle /\ ReportIdle /\ TextIdle

ResolvePrimary ==
    /\ IsNone(usedPrimary)
    /\ usedPrimary' = Some(UsedMembersInMethod(Some(body), fields))
    /\ UNCHANGED <<body, fields, usedFallback, cohesionVars, severityVars, mainVars,
                 reportVars, textVars>>

ResolveFallback ==
    /\ IsNone(usedFallback)
    /\ usedFallback' = Some(UsedFields(Some(TsBlock(body)), fields))
    /\ UNCHANGED <<body, fields, usedPrimary, cohesionVars, severityVars, mainVars,
                 reportVars, textVars>>

NextResolver == ResolvePrimary \/ ResolveFallback
SpecResolver == InitResolver /\ [][NextResolver]_vars

\* =========================================================================
\* Specification SpecCohesion: one type declaration, analysed and scored
\* =========================================================================
InitCohesion ==
    /\ cls \in {Some(t) : t \in TypeDecl}
    /\ strategy = "" /\ rows = None /\ verdicts = None
    /\ ResolverIdle /\ SeverityIdle /\ MainIdle /\ ReportIdle /\ TextIdle

AnalysePrimary ==
    /\ IsNone(rows)
    /\ strategy' = "javalang"
    /\ rows' = Some(ClassesWithLcom(<<Val(cls)>>, "ok", "F.java").rows)
    /\ UNCHANGED <<cls, verdicts, resolverVars, severityVars, mainVars,
                 reportVars, textVars>>

AnalyseFallback ==
    /\ IsNone(rows)
    /\ strategy' = "tree-sitter"
    /\ rows' = Some(ClassesWithLcomTreeSitter(<<Val(cls)>>, TRUE, "F.java").rows)
    /\ UNCHANGED <<cls, verdicts, resolverVars, severityVars, mainVars,
                 reportVars, textVars>>

Score ==
    /\ ~IsNone(rows) /\ IsNone(verdicts)
    /\ verdicts' = Some([i \in 1..Len(Val(rows)) |-> AugmentClassRow(Val(rows)[i])])
    /\ UNCHANGED <<cls, strategy, rows, resolverVars, severityVars, mainVars,
                 reportVars, textVars>>

NextCohesion == AnalysePrimary \/ AnalyseFallback \/ Score
SpecCohesion == InitCohesion /\ [][NextCohesion]_vars

\* =========================================================================
\* Specification SpecSeverity: _class_severity on every argument triple
\* =========================================================================
Str_ESTATE    == <<"E", "S", "T", "A", "T", "E">>
Str_Listen    == <<"L", "i", "s", "t", "e", "n">>
Str_LogAspect == <<"L", "o", "g", "A", "s", "p", "e", "c", "t">>
SeverityNames ==
    {None, Some(<<>>), Some(Str_OrderProcessor), Some(Str_UserRepository),
     Some(Str_ESTATE), Some(Str_Listen), Some(Str_LogAspect)}
MaxPairs == (MaxM * (MaxM - 1)) \div 2
SeverityArgs ==
    [methods    : {None} \cup {Some(m) : m \in 0..MaxM},
     lcom       : {None} \cup {Some(l) : l \in -1..(MaxPairs + 1)},
     class_name : SeverityNames]

InitSeverity ==
    /\ sevIn \in {Some(a) : a \in SeverityArgs}
    /\ sevOut = None
    /\ ResolverIdle /\ CohesionIdle /\ MainIdle /\ ReportIdle /\ TextIdle

CallClassSeverity ==
    /\ IsNone(sevOut)
    /\ sevOut' = Some(ClassSeverity(Val(sevIn).methods, Val(sevIn).lcom,
                                    Val(sevIn).class_name))
    /\ UNCHANGED <<sevIn, resolverVars, cohesionVars, mainVars,
                 reportVars, textVars>>

NextSeverity == CallClassSeverity
SpecSeverity == InitSeverity /\ [][NextSeverity]_vars

\* =========================================================================
\* Claims about the cohesion metric (SpecCohesion)
\* =========================================================================
TheClass == Val(cls)
Analysed == ~IsNone(rows) /\ TheClass.kind = "class"
Scored   == Analysed /\ ~IsNone(verdicts)

\* the declarations with a body, and the fields each one names in its body
BodiedDecls(t)  == SelectSeq(t.methods, LAMBDA m : m.body # None)
NamedFields(m, t) ==
    {Val(m.body)[i].path[j] : <<i, j>> \in
        {p \in (1..Len(Val(m.body))) \X (1..MaxPath) :
            p[2] <= Len(Val(m.body)[p[1]].path)}} \cap t.fields
SharingPairs(t) ==
    {p \in (1..Len(BodiedDecls(t))) \X (1..Len(BodiedDecls(t))) :
        /\ p[1] < p[2]
        /\ NamedFields(BodiedDecls(t)[p[1]], t)
             \cap NamedFields(BodiedDecls(t)[p[2]], t) # {}}
TotalPairs(t) == (Len(BodiedDecls(t)) * (Len(BodiedDecls(t)) - 1)) \div 2
ExpectedLcom(t) ==
    Max((TotalPairs(t) - Cardinality(SharingPairs(t))) - Cardinality(SharingPairs(t)), 0)

\* C1: for every analysed class, 'methods' is the number m of method
\* declarations with a body (each declaration counted) and lcom is
\* max(disjoint - sharing, 0) over all m*(m-1)/2 unordered pairs of them.
C1_LcomOverAllBodiedMethods ==
    Analysed =>
        /\ Len(Val(rows)) = 1
        /\ Val(rows)[1].methods = Len(BodiedDecls(TheClass))
        /\ Val(rows)[1].lcom = Some(ExpectedLcom(TheClass))

\* the same type declaration without its body-less method declarations
WithoutSignatures(t) == [t EXCEPT !.methods = BodiedDecls(t)]
RowsBy(strat, t) ==
    IF strat = "javalang" THEN ClassesWithLcom(<<t>>, "ok", "F.java").rows
    ELSE ClassesWithLcomTreeSitter(<<t>>, TRUE, "F.java").rows

\* C2: a method without a body contributes no cohesion data under either
\* strategy: the rows (methods, lcom) of a class are those of the same class
\* with its body-less method declarations removed.
C2_SignaturesContributeNothing ==
    Analysed => Val(rows) = RowsBy(strategy, WithoutSignatures(TheClass))

\* C3: every class-metric record of either strategy has raw lcom >= 0, and
\* its normalized value lies in [0, 1].
C3_LcomAndNormalizedInRange ==
    /\ ~IsNone(rows) =>
          \A i \in 1..Len(Val(rows)) :
              ~IsNone(Val(rows)[i].lcom) /\ Val(Val(rows)[i].lcom) >= 0
    /\ ~IsNone(verdicts) =>
          \A i \in 1..Len(Val(verdicts)) :
              LET n == Val(verdicts)[i].nlc IN
              n.den > 0 /\ 0 <= n.num /\ n.num <= n.den

C3_Witness ==
    /\ Scored /\ Len(Val(verdicts)) = 1
    /\ Val(rows)[1].methods = 3 /\ Val(Val(rows)[1].lcom) = 3
    /\ Val(verdicts)[1].nlc.num = Val(verdicts)[1].nlc.den

\* the scenario of C7: methods a and b use field x, method c uses only y
ScenarioClass ==
    [kind |-> "class", name |-> Str_OrderProcessor, fields |-> FieldNames,
     methods |-> <<[name |-> "a", body |-> Some(<<ThisRef("x")>>)],
                   [name |-> "b", body |-> Some(<<ThisRef("x")>>)],
                   [name |-> "c", body |-> Some(<<ThisRef("y")>>)]>>]
ScenarioScored == Scored /\ TheClass = ScenarioClass /\ Len(Val(verdicts)) = 1
ScenarioNumbers ==
    /\ Val(rows)[1].methods = 3
    /\ (Val(rows)[1].methods * (Val(rows)[1].methods - 1)) \div 2 = 3
    /\ Val(rows)[1].lcom = Some(1)
    /\ Val(verdicts)[1].nlc.num * 3 = Val(verdicts)[1].nlc.den

SevArgs   == Val(sevIn)
SevResult == Val(sevOut)
SevCalled == ~IsNone(sevOut)
NonExemptNames ==
    {None, Some(<<>>), Some(Str_OrderProcessor), Some(Str_Listen)}
ExemptNames ==
    {Some(Str_UserRepository), Some(Str_ESTATE), Some(Str_LogAspect)}

\* C4: with m < 2 (or an argument missing) the normalized value is 0 whatever
\* lcom is, and nothing is divided by zero; with m >= 2 it is
\* lcom / (m*(m-1)/2) clamped to [0, 1].
C4_NormalizedValue ==
    SevCalled =>
        LET n == SevResult.nlc IN
        /\ n.den > 0
        /\ (IsNone(SevArgs.methods) \/ IsNone(SevArgs.lcom)) => n.num = 0
        /\ (~IsNone(SevArgs.methods) /\ Val(SevArgs.methods) < 2) => n.num = 0
        /\ (~IsNone(SevArgs.methods) /\ ~IsNone(SevArgs.lcom)
              /\ Val(SevArgs.methods) >= 2) =>
              LET m == Val(SevArgs.methods)
                  l == Val(SevArgs.lcom)
                  d == (m * (m - 1)) \div 2
              IN IF l <= 0 THEN n.num = 0
                 ELSE IF l >= d THEN n.num = n.den
                 ELSE n.num * d = l * n.den

C4_Witness ==
    /\ SevCalled /\ SevArgs.methods = Some(1) /\ SevArgs.lcom = None
    /\ SevResult.nlc.num = 0

\* the severity the thresholds give a normalized value, in hundredths
ByThresholds(n) ==
    IF n.num * 100 >= 80 * n.den THEN RED
    ELSE IF n.num * 100 >= 40 * n.den THEN YELLOW
    ELSE GREEN
OneLevelDown(sev) == IF sev = RED THEN YELLOW ELSE GREEN
ArgsAre(m, l, name) ==
    SevArgs.methods = Some(m) /\ SevArgs.lcom = Some(l) /\ SevArgs.class_name = Some(name)

\* C5: for a non-exempt class name, normalized >= 0.80 is Red, 0.40 <=
\* normalized < 0.80 is Yellow, below 0.40 is Green; exactly 0.80 (m=5, lcom=8)
\* is Red and exactly 0.40 (m=5, lcom=4) is Yellow.
C5_InclusiveThresholds ==
    (SevCalled /\ SevArgs.class_name \in NonExemptNames) =>
        /\ SevResult.sev = ByThresholds(SevResult.nlc)
        /\ ArgsAre(5, 8, Str_OrderProcessor) =>
              SevResult.nlc.num * 10 = 8 * SevResult.nlc.den /\ SevResult.sev = RED
        /\ ArgsAre(5, 4, Str_OrderProcessor) =>
              SevResult.nlc.num * 10 = 4 * SevResult.nlc.den /\ SevResult.sev = YELLOW

C5_Witness ==
    SevCalled /\ ArgsAre(5, 8, Str_OrderProcessor) /\ SevResult.sev = RED

\* C6 as stated: an exempt name is downgraded one level (Green stays Green)
\* and gets a note; any other name keeps its severity and gets no note.
C6_ExemptAlwaysNoted ==
    SevCalled =>
        /\ SevArgs.class_name \in ExemptNames =>
              /\ SevResult.sev = OneLevelDown(ByThresholds(SevResult.nlc))
              /\ SevResult.note # ""
        /\ SevArgs.class_name \in NonExemptNames =>
              /\ SevResult.sev = ByThresholds(SevResult.nlc)
              /\ SevResult.note = ""

\* C6 (amended): an exempt name whose threshold severity is Red or Yellow is
\* downgraded one level and gets a non-empty note; an exempt name whose
\* threshold severity is Green stays Green with an empty note; any other name
\* keeps its severity with an empty note.  UserRepository with Red metrics ends
\* Yellow with a note, OrderProcessor with the same metrics stays Red.
C6_ExemptDowngradedWhenNotGreen ==
    SevCalled =>
        /\ (SevArgs.class_name \in ExemptNames
              /\ ByThresholds(SevResult.nlc) # GREEN) =>
              /\ SevResult.sev = OneLevelDown(ByThresholds(SevResult.nlc))
              /\ SevResult.note # ""
        /\ (SevArgs.class_name \in ExemptNames
              /\ ByThresholds(SevResult.nlc) = GREEN) =>
              /\ SevResult.sev = GREEN
              /\ SevResult.note = ""
        /\ SevArgs.class_name \in NonExemptNames =>
              /\ SevResult.sev = ByThresholds(SevResult.nlc)
              /\ SevResult.note = ""
        /\ ArgsAre(2, 1, Str_UserRepository) =>
              SevResult.sev = YELLOW /\ SevResult.note # ""
        /\ ArgsAre(2, 1, Str_OrderProcessor) => SevResult.sev = RED

C6_Witness ==
    /\ SevCalled /\ ArgsAre(2, 1, Str_UserRepository)
    /\ SevResult.sev = YELLOW /\ SevResult.note = NOTE_DOWNGRADED

\* =========================================================================
\* Claims about the field-usage resolvers (SpecResolver)
\* =========================================================================
\* C10: for every method body and every set of declared fields both
\* resolvers compute the same field-usage set.
C10_ResolversAgree ==
    (~IsNone(usedPrimary) /\ ~IsNone(usedFallback)) =>
        Val(usedPrimary) = Val(usedFallback)

\* =========================================================================
\* Specification Spec: run.py main, one file at a time, with the adapter
\* classes_with_lcom_with_fallback unfolded into its calls
\* =========================================================================
\* pc: "loop" (head of the for), "primary" (line 201 is next),
\* "fallback_try" (line 204 is next), "fallback_except" (line 208 is next),
\* "rows" (the adapter returned res; run.py line 51), "scan" (line 61),
\* "done" (the loop is over), "crashed" (an exception left main).
\* calls is the log of parser calls: [file, fn, outcome].
AbstractAndBodied ==
    [kind |-> "class", name |-> Str_UserRepository, fields |-> FieldNames,
     methods |-> <<[name |-> "a", body |-> None],
                   [name |-> "b", body |-> Some(<<ThisRef("x")>>)]>>]
AnInterface ==
    [kind |-> "interface", name |-> Str_Listen, fields |-> {},
     methods |-> <<[name |-> "a", body |-> None]>>]
Units == {<<>>, <<AbstractAndBodied>>, <<AnInterface, ScenarioClass>>}

\* the i-th file that is read
FileName(i) == "F" \o ToString(i) \o ".java"
IsParseError(r) == r.class = Str_PARSE_ERROR
AnyParseError(rs) == \E i \in 1..Len(rs) : IsParseError(rs[i])
Call(fn, out) ==
    [file |-> Val(cur).name, fn |-> fn,
     outcome |-> IF out.raised THEN "raised"
                 ELSE IF AnyParseError(out.rows) THEN "error_row" ELSE "rows"]

\* run.py lines 51-59: the rows of res that go to each collection
\* fault variant: the continue after the PARSE_ERROR finding forgotten
NewClassRowsNoContinue(rs) == rs
NewClassRows(rs) == SelectSeq(rs, LAMBDA r : ~IsParseError(r))
NewParseFindings(rs) ==
    LET errs == SelectSeq(rs, IsParseError)
    IN [i \in 1..Len(errs) |->
           [file |-> errs[i].file, rule |-> "PARSE_ERROR", message |-> errs[i].error]]
RuleFindings(name, rules) ==
    [i \in 1..Len(rules) |-> [file |-> name, rule |-> rules[i], message |-> ""]]

IdempotencyScans == {<<>>, <<"POST_WRITE_NO_IDEMPOTENCY_HINT">>}
ResilienceScans  == {<<>>, <<"CATCH_GENERIC_EXCEPTION">>}
\* what heuristics_solid.scan returns on a text (the rule ids, in order)
SolidScans == {<<>>, <<"ISP_SMELL_FAT_INTERFACE">>}

Init ==
    /\ pc = "loop"
    /\ todo \in 0..MaxFiles
    /\ limit \in {0, 1}
    /\ tsAvailable \in BOOLEAN
    /\ cur = None /\ calls = <<>> /\ res = <<>> /\ raised = FALSE
    /\ files_rows = <<>> /\ class_rows = <<>> /\ findings_rows = <<>>
    /\ count = 0
    /\ ResolverIdle /\ CohesionIdle /\ SeverityIdle /\ ReportIdle /\ TextIdle

LoopOver == todo = 0 \/ (limit # 0 /\ count >= limit)
idleVars == <<resolverVars, cohesionVars, severityVars, reportVars, textVars>>

\* the iterator is exhausted or --limit is reached: the reports are written
Finish ==
    /\ pc = "loop" /\ LoopOver
    /\ pc' = "done"
    /\ UNCHANGED <<todo, limit, tsAvailable, cur, calls, res, raised,
                   files_rows, class_rows, findings_rows, count, idleVars>>

\* stat or read_text raises, or the file is larger than --max-file-size
SkipFile ==
    /\ pc = "loop" /\ ~LoopOver
    /\ todo' = todo - 1
    /\ UNCHANGED <<pc, limit, tsAvailable, cur, calls, res, raised,
                   files_rows, class_rows, findings_rows, count, idleVars>>

\* lines 37-49: the text is read and the file-stat record appended; the
\* text is what the parsers make of it (types) and what the structural
\* rule set finds in it (solid)
ReadFile ==
    /\ pc = "loop" /\ ~LoopOver
    /\ \E types \in Units, solid \in SolidScans :
          cur' = Some([name |-> FileName(Len(files_rows) + 1), types |-> types,
                       solid |-> solid])
    /\ todo' = todo - 1
    /\ files_rows' = Append(files_rows, [file |-> FileName(Len(files_rows) + 1)])
    /\ pc' = "primary"
    /\ UNCHANGED <<limit, tsAvailable, calls, res, raised,
                   class_rows, findings_rows, count, idleVars>>

NoParserRow(name) == <<ErrorRow(name, "no parser available")>>

\* lines 200-209 up to a call of the fallback: classes_with_lcom is called
Primary ==
    /\ pc = "primary"
    /\ \E primary \in {"ok", "parse_error", "raise"} :
          LET out == ClassesWithLcom(Val(cur).types, primary, Val(cur).name) IN
          /\ calls' = Append(calls, Call("primary", out))
          /\ IF out.raised
             THEN IF tsAvailable
                  THEN pc' = "fallback_except" /\ res' = res
                  ELSE pc' = "rows" /\ res' = NoParserRow(Val(cur).name)
             ELSE IF AnyParseError(out.rows) /\ tsAvailable
                  THEN pc' = "fallback_try" /\ res' = res
                  ELSE pc' = "rows" /\ res' = out.rows
    /\ UNCHANGED <<todo, limit, tsAvailable, cur, raised,
                   files_rows, class_rows, findings_rows, count, idleVars>>

\* line 204, inside the try: an exception leaving the call lands in the except
FallbackTry ==
    /\ pc = "fallback_try"
    /\ \E works \in BOOLEAN :
          LET out == ClassesWithLcomTreeSitter(Val(cur).types, works, Val(cur).name) IN
          /\ calls' = Append(calls, Call("fallback", out))
          /\ IF out.raised
             THEN IF tsAvailable
                  THEN pc' = "fallback_except" /\ res' = res
                  ELSE pc' = "rows" /\ res' = NoParserRow(Val(cur).name)
             ELSE pc' = "rows" /\ res' = out.rows
    /\ UNCHANGED <<todo, limit, tsAvailable, cur, raised,
                   files_rows, class_rows, findings_rows, count, idleVars>>

\* line 208, inside the except: an exception leaving the call leaves main
FallbackExcept ==
    /\ pc = "fallback_except"
    /\ \E works \in BOOLEAN :
          LET out == ClassesWithLcomTreeSitter(Val(cur).types, works, Val(cur).name) IN
          /\ calls' = Append(calls, Call("fallback", out))
          /\ IF out.raised
             THEN pc' = "crashed" /\ raised' = TRUE /\ res' = res
             ELSE pc' = "rows" /\ raised' = raised /\ res' = out.rows
    /\ UNCHANGED <<todo, limit, tsAvailable, cur,
                   files_rows, class_rows, findings_rows, count, idleVars>>

\* run.py lines 51-59: every row of res goes to findings_rows or class_rows
CollectRows ==
    /\ pc = "rows"
    /\ findings_rows' = findings_rows \o NewParseFindings(res)
    /\ class_rows' = class_rows \o NewClassRows(res)
    /\ pc' = "scan"
    /\ UNCHANGED <<todo, limit, tsAvailable, cur, calls, res, raised,
                   files_rows, count, idleVars>>

\* run.py lines 61-66: the findings of scan_idemp and scan_res, then count += 1
Scan ==
    /\ pc = "scan"
    /\ \E idemp \in IdempotencyScans, resil \in ResilienceScans :
          findings_rows' = findings_rows \o RuleFindings(Val(cur).name, idemp)
                                         \o RuleFindings(Val(cur).name, resil)
    /\ count' = count + 1
    /\ pc' = "loop"
    /\ UNCHANGED <<todo, limit, tsAvailable, cur, calls, res, raised,
                   files_rows, class_rows, idleVars>>

Next ==
    \/ Finish \/ SkipFile \/ ReadFile
    \/ Primary \/ FallbackTry \/ FallbackExcept
    \/ CollectRows \/ Scan
Spec == Init /\ [][Next]_vars

\* =========================================================================
\* Claims about the parser adapter and the batch loop (Spec)
\* =========================================================================
FilesSeen == {files_rows[i].file : i \in 1..Len(files_rows)}
CallsOf(f) == SelectSeq(calls, LAMBDA c : c.file = f)
FallbackCalls(f) == SelectSeq(CallsOf(f), LAMBDA c : c.fn = "fallback")
PrimaryFailed(f) ==
    \E i \in 1..Len(CallsOf(f)) :
        CallsOf(f)[i].fn = "primary" /\ CallsOf(f)[i].outcome \in {"error_row", "raised"}
FallbackFailed(f) ==
    \E i \in 1..Len(FallbackCalls(f)) : FallbackCalls(f)[i].outcome # "rows"
IsCurrent(f) == ~IsNone(cur) /\ Val(cur).name = f
\* the adapter has returned for f / main has collected the rows of f
AdapterReturned(f) == ~(IsCurrent(f) /\ pc \in {"primary", "fallback_try", "fallback_except"})
Collected(f) == AdapterReturned(f) /\ ~(IsCurrent(f) /\ pc = "rows")
OrderAndCount(f) ==
    /\ Len(FallbackCalls(f)) <= 1
    /\ CallsOf(f) # <<>> => CallsOf(f)[1].fn = "primary"
    /\ FallbackCalls(f) # <<>> => PrimaryFailed(f)

\* C8 as stated: per file the fallback parser is invoked iff the primary
\* parser reported failure, at most once, and never before the primary.
C8_FallbackIffPrimaryFailed ==
    \A f \in FilesSeen :
        /\ OrderAndCount(f)
        /\ AdapterReturned(f) => (FallbackCalls(f) # <<>> <=> PrimaryFailed(f))

\* C8 (amended): per file the fallback parser is invoked iff the primary
\* parser reported failure and the tree-sitter dependency is importable
\* (_ts_available()); it is invoked at most once, never before the primary.
C8_FallbackIffPrimaryFailedAndAvailable ==
    \A f \in FilesSeen :
        /\ OrderAndCount(f)
        /\ AdapterReturned(f) =>
              (FallbackCalls(f) # <<>> <=> (PrimaryFailed(f) /\ tsAvailable))

C8_Witness ==
    /\ pc = "scan" /\ tsAvailable
    /\ Len(CallsOf(Val(cur).name)) = 2
    /\ CallsOf(Val(cur).name)[1].fn = "primary"
    /\ CallsOf(Val(cur).name)[1].outcome = "error_row"
    /\ CallsOf(Val(cur).name)[2].fn = "fallback"
    /\ CallsOf(Val(cur).name)[2].outcome = "rows"

ParseFindingsOf(f) ==
    SelectSeq(findings_rows, LAMBDA r : r.file = f /\ r.rule = "PARSE_ERROR")
ClassRowsOf(f) == SelectSeq(class_rows, LAMBDA r : r.file = f)
BothParsersFailed(f) ==
    PrimaryFailed(f) /\ (FallbackFailed(f) \/ ~tsAvailable)

\* C9: the adapter returns class rows only or a single PARSE_ERROR marker,
\* never both; when the primary parser fails and the fallback fails or is
\* unavailable, nothing is raised, the file gets exactly one PARSE_ERROR
\* finding and no class-metric record, and the loop goes on.
C9_ParseFailureIsOneFinding ==
    /\ raised = FALSE /\ pc # "crashed"
    /\ pc = "rows" =>
          \/ ~AnyParseError(res)
          \/ Len(res) = 1 /\ IsParseError(res[1])
    /\ \A f \in FilesSeen :
          (Collected(f) /\ BothParsersFailed(f)) =>
              /\ Len(ParseFindingsOf(f)) = 1
              /\ ClassRowsOf(f) = <<>>
              /\ pc \in {"scan", "loop", "primary", "fallback_try",
                         "fallback_except", "rows", "done"}

C9_Witness ==
    /\ pc = "done" /\ count = 2
    /\ BothParsersFailed(FileName(1)) /\ FallbackFailed(FileName(1))
    /\ Len(ParseFindingsOf(FileName(1))) = 1
    /\ ClassRowsOf(FileName(1)) = <<>>
    /\ ClassRowsOf(FileName(2)) # <<>>

FindingsOf(f) == SelectSeq(findings_rows, LAMBDA r : r.file = f)
RulesOf(f) == {FindingsOf(f)[i].rule : i \in 1..Len(FindingsOf(f))}
Scanned(f) == Collected(f) /\ ~(IsCurrent(f) /\ pc = "scan")

\* C11: for each file main processes, the idempotency, the resilience and
\* the structural rule set are run on its text and every finding each of
\* them returns is in findings for that file.
C11_AllThreeRuleSetsRun ==
    (~IsNone(cur) /\ Scanned(Val(cur).name)) =>
        \A k \in 1..Len(Val(cur).solid) :
            Val(cur).solid[k] \in RulesOf(Val(cur).name)

\* =========================================================================
\* report.py: the rule tables and the tables computed from the findings
\* =========================================================================
\* the rule ids each scan can append
IdempotencyRuleIds ==
    {"POST_WRITE_NO_IDEMPOTENCY_HINT", "NON_DETERMINISM", "STATIC_STATE_MUTATION"}
ResilienceRuleIds ==
    {"REST_NO_TIMEOUT", "CATCH_GENERIC_EXCEPTION", "UNBOUNDED_THREADPOOL",
     "WEBCLIENT_NO_TIMEOUT", "FEIGN_NO_TIMEOUTS"}
SolidRuleIds ==
    {"OCP_SMELL_SWITCH_ON_TYPE", "OCP_SMELL_INSTANCEOF_CHAIN",
     "LSP_VIOLATION_UNSUPPORTED", "ISP_SMELL_FAT_INTERFACE",
     "ISP_SMELL_EMPTY_IMPLEMENTATION", "DIP_VIOLATION_CONCRETE_DEP"}
EmittedRuleIds ==
    IdempotencyRuleIds \cup ResilienceRuleIds \cup SolidRuleIds \cup {"PARSE_ERROR"}

Item(k, v) == [k |-> k, v |-> v]
DictHas(d, k) == \E i \in 1..Len(d) : d[i].k = k
DictGet(d, k, default) ==
    IF DictHas(d, k) THEN d[CHOOSE i \in 1..Len(d) : d[i].k = k].v ELSE default

\* fault variant: a rule a scan emits is missing from the table's Red/Yellow
RuleSeverityWithGreen ==
    <<Item("PARSE_ERROR", YELLOW), Item("DIP_VIOLATION_CONCRETE_DEP", GREEN)>>
RULE_SEVERITY ==
    <<Item("PARSE_ERROR", YELLOW),
      Item("STATIC_STATE_MUTATION", YELLOW),
      Item("REST_NO_TIMEOUT", RED),
      Item("CATCH_GENERIC_EXCEPTION", YELLOW),
      Item("UNBOUNDED_THREADPOOL", RED),
      Item("WEBCLIENT_NO_TIMEOUT", RED),
      Item("FEIGN_NO_TIMEOUTS", RED),
      Item("POST_WRITE_NO_IDEMPOTENCY_HINT", RED),
      Item("NON_DETERMINISM", YELLOW),
      Item("SRP_VIOLATION", RED),
      Item("OCP_SMELL_SWITCH_ON_TYPE", YELLOW),
      Item("OCP_SMELL_INSTANCEOF_CHAIN", YELLOW),
      Item("LSP_VIOLATION_UNSUPPORTED", RED),
      Item("ISP_SMELL_FAT_INTERFACE", YELLOW),
      Item("ISP_SMELL_EMPTY_IMPLEMENTATION", YELLOW),
      Item("DIP_VIOLATION_CONCRETE_DEP", RED)>>
SOLID_RULES ==
    <<Item("S", {"SRP_VIOLATION"}),
      Item("O", {"OCP_SMELL_SWITCH_ON_TYPE", "OCP_SMELL_INSTANCEOF_CHAIN"}),
      Item("L", {"LSP_VIOLATION_UNSUPPORTED"}),
      Item("I", {"ISP_SMELL_FAT_INTERFACE", "ISP_SMELL_EMPTY_IMPLEMENTATION"}),
      Item("D", {"DIP_VIOLATION_CONCRETE_DEP"})>>
SEV_WEIGHT == <<Item(RED, 2), Item(YELLOW, 1)>>

\* _augment_findings_df: the sev column from the table, Yellow by default
AugmentFindingsDf(d) ==
    [i \in 1..Len(d) |->
        [file |-> d[i].file, rule |-> d[i].rule,
         sev |-> DictGet(rule_severity, d[i].rule, YELLOW)]]

\* _files_table, the rollup: solid_counts[file][letter] += weight
ZeroCounts == [S |-> 0, O |-> 0, L |-> 0, I |-> 0, D |-> 0]
RowSev(r) ==
    IF "sev" \in DOMAIN r THEN r.sev ELSE DictGet(rule_severity, r.rule, YELLOW)
\* fault variant: every finding weighs 1
WeightOne(sev) == 1
Weight(sev) == DictGet(SEV_WEIGHT, sev, 1)
RECURSIVE AddToLetters(_, _, _)
AddToLetters(sc, r, i) ==
    IF i > Len(SOLID_RULES) THEN sc
    ELSE LET letter == SOLID_RULES[i].k
             sc0 == IF DictHas(sc, r.file) THEN sc
                    ELSE DictSet(sc, r.file, ZeroCounts)
             old == DictGet(sc0, r.file, ZeroCounts)
             sc1 == IF r.rule \in SOLID_RULES[i].v
                    THEN DictSet(sc0, r.file,
                                 [old EXCEPT ![letter] = @ + Weight(RowSev(r))])
                    ELSE sc
         IN AddToLetters(sc1, r, i + 1)
RECURSIVE SolidCounts(_, _)
SolidCounts(sc, d) ==
    IF d = <<>> THEN sc
    ELSE SolidCounts(AddToLetters(sc, Head(d), 1), Tail(d))

\* =========================================================================
\* Specification SpecReport: write_html's findings pipeline, lines 309, 297
\* =========================================================================
MaxFindings == 2
ReportFiles == {FileName(i) : i \in 1..MaxFiles}
FindingRows == [file : ReportFiles, rule : EmittedRuleIds]

InitReport ==
    /\ rule_severity = RULE_SEVERITY
    /\ dff \in {Some(d) : d \in SeqsUpTo(FindingRows, MaxFindings)}
    /\ dff2 = None /\ solid_counts = None
    /\ ResolverIdle /\ CohesionIdle /\ SeverityIdle /\ MainIdle /\ TextIdle

AugmentFindings ==
    /\ IsNone(dff2)
    /\ dff2' = Some(AugmentFindingsDf(Val(dff)))
    /\ UNCHANGED <<rule_severity, dff, solid_counts,
                   resolverVars, cohesionVars, severityVars, mainVars, textVars>>

FilesTable ==
    /\ ~IsNone(dff2) /\ IsNone(solid_counts)
    /\ solid_counts' = Some(SolidCounts(<<>>, Val(dff2)))
    /\ UNCHANGED <<rule_severity, dff, dff2,
                   resolverVars, cohesionVars, severityVars, mainVars, textVars>>

NextReport == AugmentFindings \/ FilesTable
SpecReport == InitReport /\ [][NextReport]_vars

\* -------------------------------------------------------------- claims
\* C12: every rule id a rule set can emit, and PARSE_ERROR, has an entry
\* in RULE_SEVERITY that is Red or Yellow, never Green; PARSE_ERROR is
\* Yellow; the table stays as loaded, and the sev column is read from it.
C12_EmittedRulesRedOrYellow ==
    /\ rule_severity = RULE_SEVERITY
    /\ \A r \in EmittedRuleIds :
          /\ DictHas(rule_severity, r)
          /\ DictGet(rule_severity, r, GREEN) \in {RED, YELLOW}
    /\ DictGet(rule_severity, "PARSE_ERROR", GREEN) = YELLOW
    /\ ~IsNone(dff2) =>
          \A i \in 1..Len(Val(dff2)) :
              /\ Val(dff2)[i].sev \in {RED, YELLOW}
              /\ Val(dff2)[i].sev = DictGet(RULE_SEVERITY, Val(dff2)[i].rule, GREEN)

C12_Witness ==
    /\ ~IsNone(dff2) /\ Len(Val(dff2)) = 2
    /\ Val(dff2)[1].rule = "PARSE_ERROR" /\ Val(dff2)[1].sev = YELLOW
    /\ Val(dff2)[2].rule = "DIP_VIOLATION_CONCRETE_DEP" /\ Val(dff2)[2].sev = RED

LETTERS == {"S", "O", "L", "I", "D"}
LettersOf(rule) == {SOLID_RULES[i].k : i \in {j \in 1..Len(SOLID_RULES) : rule \in SOLID_RULES[j].v}}
CountOf(f, l) == DictGet(Val(solid_counts), f, ZeroCounts)[l]
RECURSIVE ExpectedCount(_, _, _)
ExpectedCount(f, l, n) ==
    IF n = 0 THEN 0
    ELSE LET r == Val(dff2)[n]
         IN ExpectedCount(f, l, n - 1)
            + (IF r.file = f /\ l \in LettersOf(r.rule)
               THEN IF r.sev = RED THEN 2 ELSE 1
               ELSE 0)

\* C13: each structural rule id belongs to exactly one letter set of
\* SOLID_RULES, and the rollup of _files_table adds, for every such
\* finding of a file, 2 if it is Red and 1 if it is Yellow to that
\* letter's count of that file and to nothing else.
C13_RollupByLetter ==
    /\ \A r \in SolidRuleIds : Cardinality(LettersOf(r)) = 1
    /\ ~IsNone(solid_counts) =>
          \A f \in ReportFiles, l \in LETTERS :
              CountOf(f, l) = ExpectedCount(f, l, Len(Val(dff2)))

C13_Witness ==
    /\ ~IsNone(solid_counts)
    /\ Val(dff) = <<[file |-> FileName(1), rule |-> "DIP_VIOLATION_CONCRETE_DEP"],
                    [file |-> FileName(1), rule |-> "OCP_SMELL_SWITCH_ON_TYPE"]>>
    /\ Val(solid_counts) =
          <<Item(FileName(1), [S |-> 0, O |-> 1, L |-> 0, I |-> 0, D |-> 2])>>

\* =========================================================================
\* Python re: a pattern is a tree, matched by backtracking
\* =========================================================================
\* A text is the tuple of its characters.  Positions are Python's: the
\* character at position i is s[i + 1], and a slice s[a:b] is
\* SubSeq(s, a + 1, b).
Slice(s, a, b) == SubSeq(s, a + 1, b)
UPPERS == {UPPER[i] : i \in 1..Len(UPPER)}
LOWERS == {LOWER[i] : i \in 1..Len(LOWER)}
DIGITS == {"0", "1", "2", "3", "4", "5", "6", "7", "8", "9"}
WORD_CHARS  == UPPERS \cup LOWERS \cup DIGITS \cup {"_"}
SPACE_CHARS == {" ", "\t", "\n", "\r", "\f"}

Lit(str)    == [op |-> "lit", str |-> str]
Set(S)      == [op |-> "set", set |-> S]
NotSet(S)   == [op |-> "nset", set |-> S]
Cat(ps)     == [op |-> "cat", ps |-> ps]
Alt(ps)     == [op |-> "alt", ps |-> ps]
\* p{min,max}, max = -1 for no upper limit; lazy when greedy is FALSE
Rep(p, min, max, greedy) ==
    [op |-> "rep", p |-> p, min |-> min, max |-> max, greedy |-> greedy]
Star(p)     == Rep(p, 0, -1, TRUE)
Plus(p)     == Rep(p, 1, -1, TRUE)
Opt(p)      == Rep(p, 0, 1, TRUE)
WORD_B      == [op |-> "b"]
NotAhead(p) == [op |-> "nla", p |-> p]
DOT         == NotSet({"\n"})
WORD        == Set(WORD_CHARS)
SPACE       == Set(SPACE_CHARS)

IsWordAt(s, i) == i >= 0 /\ i < Len(s) /\ s[i + 1] \in WORD_CHARS
\* ic is the IGNORECASE flag
LitAt(str, s, i, ic) ==
    /\ i + Len(str) <= Len(s)
    /\ \A k \in 1..Len(str) :
          IF ic THEN Lower(s[i + k]) = Lower(str[k]) ELSE s[i + k] = str[k]

\* Ends(p, s, i, ic): the positions at which a match of p that starts at i
\* can end, in the order in which the backtracking matcher tries them; the
\* first one is the end of the match re reports.
CharOk(p, c) == IF p.op = "set" THEN c \in p.set ELSE c \notin p.set
\* a repetition of a one-character pattern: the run of such characters from
\* i on, longest first when greedy, shortest first when lazy
CharRepEnds(p, s, i) ==
    LET stop(j) == j = Len(s) \/ ~CharOk(p.p, s[j + 1])
        run == CHOOSE j \in i..Len(s) : stop(j) /\ \A k \in i..(j - 1) : ~stop(k)
        hi  == IF p.max >= 0 /\ i + p.max < run THEN i + p.max ELSE run
        lo  == i + p.min
    IN IF hi < lo THEN <<>>
       ELSE [k \in 1..(hi - lo + 1) |-> IF p.greedy THEN hi - k + 1 ELSE lo + k - 1]
RECURSIVE Ends(_, _, _, _)
RECURSIVE CatEnds(_, _, _, _)
RECURSIVE CatEndsFrom(_, _, _, _, _, _)
RECURSIVE AltEnds(_, _, _, _)
RECURSIVE RepEnds(_, _, _, _, _)
RECURSIVE RepEndsFrom(_, _, _, _, _)
Ends(p, s, i, ic) ==
    CASE p.op = "lit"  -> IF LitAt(p.str, s, i, ic) THEN <<i + Len(p.str)>> ELSE <<>>
      [] p.op = "set"  -> IF i < Len(s) /\ s[i + 1] \in p.set THEN <<i + 1>> ELSE <<>>
      [] p.op = "nset" -> IF i < Len(s) /\ s[i + 1] \notin p.set THEN <<i + 1>> ELSE <<>>
      [] p.op = "b"    -> IF IsWordAt(s, i - 1) # IsWordAt(s, i) THEN <<i>> ELSE <<>>
      [] p.op = "nla"  -> IF Ends(p.p, s, i, ic) = <<>> THEN <<i>> ELSE <<>>
      [] p.op = "cat"  -> CatEnds(p.ps, s, i, ic)
      [] p.op = "alt"  -> AltEnds(p.ps, s, i, ic)
      [] p.op = "rep"  -> IF p.p.op \in {"set", "nset"} THEN CharRepEnds(p, s, i)
                          ELSE RepEnds(p, s, i, ic, 0)
CatEnds(ps, s, i, ic) ==
    IF ps = <<>> THEN <<i>>
    ELSE LET starts == Ends(Head(ps), s, i, ic)
         IN CatEndsFrom(Tail(ps), s, starts, 1, Len(starts), ic)
\* the ends of ps from starts[lo], ..., starts[hi], in this order
CatEndsFrom(ps, s, starts, lo, hi, ic) ==
    IF lo > hi THEN <<>>
    ELSE IF lo = hi THEN CatEnds(ps, s, starts[lo], ic)
    ELSE LET mid == (lo + hi) \div 2
         IN CatEndsFrom(ps, s, starts, lo, mid, ic)
            \o CatEndsFrom(ps, s, starts, mid + 1, hi, ic)
AltEnds(ps, s, i, ic) ==
    IF ps = <<>> THEN <<>>
    ELSE Ends(Head(ps), s, i, ic) \o AltEnds(Tail(ps), s, i, ic)
\* a repetition of a longer pattern, n repetitions done; no pattern below
\* repeats an empty match
RepEnds(p, s, i, ic, n) ==
    LET more == IF p.max >= 0 /\ n >= p.max THEN <<>>
                ELSE RepEndsFrom(p, s,
                                 SelectSeq(Ends(p.p, s, i, ic), LAMBDA e : e > i),
                                 ic, n + 1)
        stop == IF n >= p.min THEN <<i>> ELSE <<>>
    IN IF p.greedy THEN more \o stop ELSE stop \o more
RepEndsFrom(p, s, starts, ic, n) ==
    IF starts = <<>> THEN <<>>
    ELSE RepEnds(p, s, Head(starts), ic, n) \o RepEndsFrom(p, s, Tail(starts), ic, n)

\* the leftmost match that starts in lo..hi, None when there is none
RECURSIVE SearchIn(_, _, _, _, _)
SearchIn(p, s, lo, hi, ic) ==
    IF lo > hi THEN None
    ELSE IF lo = hi
    THEN LET es == Ends(p, s, lo, ic)
         IN IF es # <<>> THEN Some([start |-> lo, end |-> Head(es)]) ELSE None
    ELSE LET mid  == (lo + hi) \div 2
             left == SearchIn(p, s, lo, mid, ic)
         IN IF ~IsNone(left) THEN left ELSE SearchIn(p, s, mid + 1, hi, ic)
\* pattern.search(s, pos)
Search(p, s, pos, ic) == SearchIn(p, s, pos, Len(s), ic)
Found(p, s, ic) == ~IsNone(Search(p, s, 0, ic))
\* pattern.finditer(s): the non-overlapping matches from left to right
RECURSIVE FindIter(_, _, _, _)
FindIter(p, s, pos, ic) ==
    LET m == Search(p, s, pos, ic)
    IN IF IsNone(m) THEN <<>>
       ELSE <<Val(m)>> \o FindIter(p, s, Max(Val(m).end, Val(m).start + 1), ic)
\* len(pattern.findall(s))
FindAllLen(p, s, ic) == Len(FindIter(p, s, 0, ic))

\* =========================================================================
\* analyzer/heuristics_solid.py
\* =========================================================================
Str_class     == <<"c", "l", "a", "s", "s">>
Str_interface == <<"i", "n", "t", "e", "r", "f", "a", "c", "e">>
Str_enum      == <<"e", "n", "u", "m">>
Str_instanceof == <<"i", "n", "s", "t", "a", "n", "c", "e", "o", "f">>

SWITCH     == Cat(<<WORD_B, Lit(<<"s", "w", "i", "t", "c", "h">>), Star(SPACE), Lit(<<"(">>)>>)
INSTANCEOF == Cat(<<WORD_B, Lit(Str_instanceof), WORD_B>>)
IF_CHAIN ==
    Cat(<<WORD_B, Lit(<<"i", "f">>), Star(SPACE), Lit(<<"(">>),
          Star(DOT), Lit(Str_instanceof), Star(DOT), Lit(<<")">>)>>)
UNSUPPORTED_IN_OVERRIDE ==
    Cat(<<Lit(<<"@", "O", "v", "e", "r", "r", "i", "d", "e">>), Rep(NotSet({}), 0, 200, FALSE),
          Lit(<<"t", "h", "r", "o", "w">>), Plus(SPACE), Lit(<<"n", "e", "w">>), Plus(SPACE),
          Lit(<<"U", "n", "s", "u", "p", "p", "o", "r", "t", "e", "d", "O", "p", "e", "r", "a", "t", "i", "o", "n", "E", "x", "c", "e", "p", "t", "i", "o", "n">>)>>)
METHOD_SIGNATURE == Cat(<<Set({";", ")"}), Star(SPACE), Lit(<<";">>)>>)
EMPTY_METHOD ==
    Cat(<<Opt(Cat(<<Lit(<<"@", "O", "v", "e", "r", "r", "i", "d", "e">>), Star(SPACE)>>)),
          Opt(Alt(<<Lit(<<"p", "u", "b", "l", "i", "c">>), Lit(<<"p", "r", "o", "t", "e", "c", "t", "e", "d">>), Lit(<<"p", "r", "i", "v", "a", "t", "e">>)>>)),
          Star(SPACE),
          Opt(Cat(<<Lit(<<"s", "t", "a", "t", "i", "c">>), Plus(SPACE)>>)),
          Plus(Set(WORD_CHARS \cup {"<", ">", "[", "]", ","} \cup SPACE_CHARS)),
          Plus(SPACE), Plus(WORD), Star(SPACE),
          Lit(<<"(">>), Star(NotSet({")"})), Lit(<<")">>),
          Star(SPACE), Lit(<<"{">>), Star(SPACE), Lit(<<"}">>)>>)
\* compiled with re.IGNORECASE
SPRING_COMPONENT_ANN ==
    Cat(<<Lit(<<"@">>),
          Alt(<<Lit(<<"S", "e", "r", "v", "i", "c", "e">>), Lit(<<"C", "o", "m", "p", "o", "n", "e", "n", "t">>), Lit(<<"C", "o", "n", "t", "r", "o", "l", "l", "e", "r">>),
                Lit(<<"R", "e", "s", "t", "C", "o", "n", "t", "r", "o", "l", "l", "e", "r">>)>>)>>)
NEW_CONCRETE ==
    Cat(<<WORD_B, Lit(<<"n", "e", "w">>), Plus(SPACE), Set(UPPERS), Plus(WORD),
          Star(SPACE), Lit(<<"(">>)>>)
CONCRETE_FIELD_IMPL ==
    Cat(<<WORD_B, Set(UPPERS), Star(WORD), Lit(<<"I", "m", "p", "l">>), Plus(SPACE), Plus(WORD),
          Star(SPACE), Alt(<<Lit(<<"=">>), Lit(<<";">>)>>)>>)
HEADER_KINDS == <<Str_class, Str_interface, Str_enum>>
CLASS_HEADER ==
    Cat(<<WORD_B, Alt([k \in 1..Len(HEADER_KINDS) |-> Lit(HEADER_KINDS[k])]),
          Plus(SPACE), Set(UPPERS \cup LOWERS \cup {"_"}), Star(WORD)>>)

\* m.group(1) and m.group(2) of a CLASS_HEADER match
HeaderKind(s, m) ==
    HEADER_KINDS[CHOOSE k \in 1..Len(HEADER_KINDS) :
                    /\ LitAt(HEADER_KINDS[k], s, m.start, FALSE)
                    /\ \A h \in 1..(k - 1) : ~LitAt(HEADER_KINDS[h], s, m.start, FALSE)]
RECURSIVE SkipSpaces(_, _)
SkipSpaces(s, i) ==
    IF i < Len(s) /\ s[i + 1] \in SPACE_CHARS THEN SkipSpaces(s, i + 1) ELSE i
HeaderName(s, m) ==
    Slice(s, SkipSpaces(s, m.start + Len(HeaderKind(s, m))), m.end)

\* lines 29-31: while i < len(java_source) and java_source[i] != "{": i += 1
RECURSIVE FirstBrace(_, _)
FirstBrace(s, i) ==
    IF i < Len(s) /\ s[i + 1] # "{" THEN FirstBrace(s, i + 1) ELSE i
\* lines 36-41: the loop over j, with the depth brace
RECURSIVE BraceLoop(_, _, _)
BraceLoop(s, j, brace) ==
    IF j < Len(s) /\ brace > 0
    THEN BraceLoop(s, j + 1,
                   IF s[j + 1] = "{" THEN brace + 1
                   ELSE IF s[j + 1] = "}" THEN brace - 1 ELSE brace)
    ELSE [j |-> j, brace |-> brace]
\* fault variant: the end of an unclosed block taken as j - 1 as well
BlockOfAlwaysJ(s, m) ==
    LET i == FirstBrace(s, m.end)
        l == BraceLoop(s, i + 1, 1)
    IN IF i >= Len(s) THEN <<>>
       ELSE <<[kind |-> HeaderKind(s, m), name |-> HeaderName(s, m),
               s |-> i + 1, e |-> l.j - 1]>>
\* lines 26-42, one turn of the for: the block of header m, if any
BlockOf(s, m) ==
    LET i == FirstBrace(s, m.end)
        l == BraceLoop(s, i + 1, 1)
    IN IF i >= Len(s) THEN <<>>
       ELSE <<[kind |-> HeaderKind(s, m), name |-> HeaderName(s, m),
               s |-> i + 1,
               e |-> IF l.brace = 0 THEN l.j - 1 ELSE Len(s)]>>
RECURSIVE BlocksOf(_, _)
BlocksOf(s, ms) ==
    IF ms = <<>> THEN <<>> ELSE BlockOf(s, Head(ms)) \o BlocksOf(s, Tail(ms))
ExtractClassBlocks(s) == BlocksOf(s, FindIter(CLASS_HEADER, s, 0, FALSE))

Finding(rule, name) == [rule |-> rule, class |-> name]
\* fault variant: the threshold taken as "more than 12"
FatInterfaceStrict(kind, sigs) == kind = Str_interface /\ sigs > 12
\* lines 69-72
FatInterface(kind, sigs) == kind = Str_interface /\ sigs >= 12
\* fault variant: the elif replaced by an independent if
OcpFindingsBoth(sw, inst, chains, name) ==
    (IF sw >= 1 /\ inst >= 2
     THEN <<Finding("OCP_SMELL_SWITCH_ON_TYPE", name)>> ELSE <<>>)
    \o (IF chains >= 2
        THEN <<Finding("OCP_SMELL_INSTANCEOF_CHAIN", name)>> ELSE <<>>)
\* lines 59-63
OcpFindings(sw, inst, chains, name) ==
    IF sw >= 1 /\ inst >= 2
    THEN <<Finding("OCP_SMELL_SWITCH_ON_TYPE", name)>>
    ELSE IF chains >= 2
    THEN <<Finding("OCP_SMELL_INSTANCEOF_CHAIN", name)>>
    ELSE <<>>
\* lines 83-88; before is java_source[:s]
DipFindings(before, block, name) ==
    LET has_component == \/ Found(SPRING_COMPONENT_ANN, before, TRUE)
                         \/ Found(SPRING_COMPONENT_ANN, block, TRUE)
        newc        == FindAllLen(NEW_CONCRETE, block, FALSE)
        impl_fields == FindAllLen(CONCRETE_FIELD_IMPL, block, FALSE)
    IN IF has_component /\ (newc >= 2 \/ impl_fields >= 1)
       THEN <<Finding("DIP_VIOLATION_CONCRETE_DEP", name)>>
       ELSE <<>>
\* lines 55-88: one turn of the for over the blocks
BlockFindings(src, b) ==
    LET block == Slice(src, b.s, b.e)
        sw    == FindAllLen(SWITCH, block, FALSE)
        inst  == FindAllLen(INSTANCEOF, block, FALSE)
    IN OcpFindings(sw, inst, FindAllLen(IF_CHAIN, block, FALSE), b.name)
       \o (IF Found(UNSUPPORTED_IN_OVERRIDE, block, FALSE)
           THEN <<Finding("LSP_VIOLATION_UNSUPPORTED", b.name)>> ELSE <<>>)
       \o (IF FatInterface(b.kind, FindAllLen(METHOD_SIGNATURE, block, FALSE))
           THEN <<Finding("ISP_SMELL_FAT_INTERFACE", b.name)>> ELSE <<>>)
       \o (IF b.kind = Str_class /\ FindAllLen(EMPTY_METHOD, block, FALSE) >= 4
           THEN <<Finding("ISP_SMELL_EMPTY_IMPLEMENTATION", b.name)>> ELSE <<>>)
       \o DipFindings(Slice(src, 0, b.s), block, b.name)
RECURSIVE FindingsOfBlocks(_, _)
FindingsOfBlocks(src, bs) ==
    IF bs = <<>> THEN <<>>
    ELSE BlockFindings(src, Head(bs)) \o FindingsOfBlocks(src, Tail(bs))
\* heuristics_solid.scan
SolidScan(src) == FindingsOfBlocks(src, ExtractClassBlocks(src))

\* =========================================================================
\* Specification SpecSolid: heuristics_solid.scan on the text of one
\* compilation unit, and the class metrics of the same unit
\* =========================================================================
\* unit is the sequence of type declarations the text is written from: an
\* optional @Service annotation, the kind, the name, the fields (with a
\* constructor call as initialiser, or typed to an Impl class), sigs
\* body-less method signatures, and the statements of one method m.
MaxStmts  == 3
MaxFields == 2
MaxSigs   == 13
Txt_Service  == <<"@", "S", "e", "r", "v", "i", "c", "e", "\n">>
Txt_NewField == <<"B", "b", " ", "b", "=", "n", "e", "w", " ", "B", "b", "(", ")", ";">>
Txt_ImplFld  == <<"C", "I", "m", "p", "l", " ", "c", ";">>
Txt_Sig      == <<"B", "b", " ", "m", "(", ")", ";">>
Txt_Switch   == <<"s", "w", "i", "t", "c", "h", "(", "x", ")", "{", "}", "\n">>
Txt_If       == <<"i", "f", "(", "x", " ", "i", "n", "s", "t", "a", "n", "c", "e", "o", "f", " ", "B", "b", ")", "{", "}", "\n">>
Txt_Inst     == <<"b", "=", "x", " ", "i", "n", "s", "t", "a", "n", "c", "e", "o", "f", " ", "B", "b", ";", "\n">>
Txt_Method   == <<"v", "o", "i", "d", " ", "m", "(", ")", "{", "\n">>
TypeNames    == <<<<"A">>, <<"D">>>>

RECURSIVE Join(_)
Join(parts) == IF parts = <<>> THEN <<>> ELSE Head(parts) \o Join(Tail(parts))
FieldText(f) == IF f = "new" THEN Txt_NewField ELSE Txt_ImplFld
StmtText(st) ==
    IF st = "switch" THEN Txt_Switch ELSE IF st = "if" THEN Txt_If ELSE Txt_Inst
TypeText(t) ==
    (IF t.ann THEN Txt_Service ELSE <<>>)
    \o (IF t.kind = "interface" THEN Str_interface ELSE Str_class)
    \o <<" ">> \o t.name \o <<"{">>
    \o Join([i \in 1..Len(t.fields) |-> FieldText(t.fields[i])])
    \o Join([i \in 1..t.sigs |-> Txt_Sig])
    \o (IF t.stmts = <<>> THEN <<>>
        ELSE Txt_Method \o Join([i \in 1..Len(t.stmts) |-> StmtText(t.stmts[i])])
             \o <<"}">>)
    \o <<"}", "\n">>
UnitText(u) == Join([i \in 1..Len(u) |-> TypeText(u[i])])

TypeOf(ann, kind, n, fs, sigs, stmts) ==
    [ann |-> ann, kind |-> kind, name |-> TypeNames[n],
     fields |-> fs, sigs |-> sigs, stmts |-> stmts]
FieldLists == SeqsUpTo({"new", "impl"}, MaxFields)
StmtLists  == SeqsUpTo({"switch", "if", "inst"}, MaxStmts)
\* one or two classes with fields, annotated or not
DipUnits ==
    {<<TypeOf(a, "class", 1, fs, 0, <<>>)>> : a \in BOOLEAN, fs \in FieldLists}
    \cup {<<TypeOf(a[1], "class", 1, fs[1], 0, <<>>),
            TypeOf(a[2], "class", 2, fs[2], 0, <<>>)>> :
             a \in [1..2 -> BOOLEAN], fs \in [1..2 -> FieldLists]}
\* one class with a method of statements
OcpUnits == {<<TypeOf(FALSE, "class", 1, <<>>, 0, sts)>> : sts \in StmtLists}
\* one class or interface of body-less signatures
IspUnits == {<<TypeOf(FALSE, k, 1, <<>>, n, <<>>)>> :
                k \in {"class", "interface"}, n \in 0..MaxSigs}
SolidUnits == DipUnits \cup OcpUnits \cup IspUnits

\* what the parsers make of a unit without statements
TreeOf(t) ==
    [kind |-> t.kind, name |-> t.name,
     fields |-> {IF t.fields[i] = "new" THEN "b" ELSE "c" : i \in 1..Len(t.fields)},
     methods |-> [i \in 1..t.sigs |-> [name |-> "m", body |-> None]]]
TreesOf(u) == [i \in 1..Len(u) |-> TreeOf(u[i])]
NoStatements(u) == \A i \in 1..Len(u) : u[i].stmts = <<>>

InitSolid ==
    /\ unit \in {Some(u) : u \in SolidUnits}
    /\ java_source = UnitText(Val(unit))
    /\ blocks = None /\ findings = None /\ metrics = None /\ loc = None
    /\ ResolverIdle /\ CohesionIdle /\ SeverityIdle /\ MainIdle /\ ReportIdle

ScanSolid ==
    /\ IsNone(findings)
    /\ findings' = Some(SolidScan(java_source))
    /\ UNCHANGED <<java_source, unit, blocks, metrics, loc, resolverVars,
                   cohesionVars, severityVars, mainVars, reportVars>>

MetricsPrimary ==
    /\ IsNone(metrics) /\ NoStatements(Val(unit))
    /\ metrics' = Some([strategy |-> "javalang",
                        rows |-> ClassesWithLcom(TreesOf(Val(unit)), "ok", "F.java").rows])
    /\ UNCHANGED <<java_source, unit, blocks, findings, loc, resolverVars,
                   cohesionVars, severityVars, mainVars, reportVars>>

MetricsFallback ==
    /\ IsNone(metrics) /\ NoStatements(Val(unit))
    /\ metrics' = Some([strategy |-> "tree-sitter",
                        rows |-> ClassesWithLcomTreeSitter(TreesOf(Val(unit)), TRUE,
                                                           "F.java").rows])
    /\ UNCHANGED <<java_source, unit, blocks, findings, loc, resolverVars,
                   cohesionVars, severityVars, mainVars, reportVars>>

NextSolid == ScanSolid \/ MetricsPrimary \/ MetricsFallback
SpecSolid == InitSolid /\ [][NextSolid]_vars

\* -------------------------------------------------------------- claims
Emitted(rule, t) ==
    \E i \in 1..Len(Val(findings)) : Val(findings)[i] = Finding(rule, t.name)
TimesEmitted(rule, t) ==
    Cardinality({i \in 1..Len(Val(findings)) : Val(findings)[i] = Finding(rule, t.name)})
TypesOfUnit == {Val(unit)[i] : i \in 1..Len(Val(unit))}
CountIn(seq, x) == Cardinality({i \in 1..Len(seq) : seq[i] = x})

\* C14: DIP_VIOLATION_CONCRETE_DEP is emitted for a class only when that
\* class itself is annotated and its block holds at least 2 constructions
\* of concrete types or at least 1 field typed to an Impl name; the
\* annotation of an earlier class of the file never counts for a later one.
C14_DipOnlyForAnnotatedClass ==
    ~IsNone(findings) =>
        \A t \in TypesOfUnit :
            Emitted("DIP_VIOLATION_CONCRETE_DEP", t) =>
                /\ t.ann
                /\ CountIn(t.fields, "new") >= 2 \/ CountIn(t.fields, "impl") >= 1

Switches(t)    == CountIn(t.stmts, "switch")
InstanceOfs(t) == CountIn(t.stmts, "if") + CountIn(t.stmts, "inst")
IfInstances(t) == CountIn(t.stmts, "if")

C16_FatInterfaceAtTwelve ==
    /\ ~IsNone(findings) =>
          \A t \in TypesOfUnit :
              Emitted("ISP_SMELL_FAT_INTERFACE", t) <=>
                  (t.kind = "interface" /\ t.sigs >= 12)
    /\ (~IsNone(metrics) /\ \A t \in TypesOfUnit : t.kind = "interface") =>
          Val(metrics).rows = <<>>

C16_Witness ==
    /\ Len(Val(unit)) = 1
    /\ Val(unit)[1].kind = "interface" /\ Val(unit)[1].sigs = 13
    /\ ~IsNone(findings)
    /\ Val(findings) = <<Finding("ISP_SMELL_FAT_INTERFACE", TypeNames[1])>>
    /\ ~IsNone(metrics)
    /\ Val(metrics).strategy = "tree-sitter" /\ Val(metrics).rows = <<>>

\* =========================================================================
\* analyzer/heuristics_idempotency.py
\* =========================================================================
\* compiled with re.DOTALL | re.IGNORECASE
POST_MAPPING ==
    Alt(<<Lit(<<"@", "P", "o", "s", "t", "M", "a", "p", "p", "i", "n", "g">>),
          Cat(<<Lit(<<"@", "R", "e", "q", "u", "e", "s", "t", "M", "a", "p", "p", "i", "n", "g">>), Star(SPACE), Lit(<<"(">>),
                Star(NotSet({")"})), Lit(<<"m", "e", "t", "h", "o", "d">>), Star(SPACE), Lit(<<"=">>),
                Star(SPACE), Lit(<<"R", "e", "q", "u", "e", "s", "t", "M", "e", "t", "h", "o", "d", ".", "P", "O", "S", "T">>)>>)>>)
\* compiled with re.IGNORECASE
DB_WRITE ==
    Cat(<<WORD_B,
          Alt(<<Lit(<<"s", "a", "v", "e">>), Lit(<<"i", "n", "s", "e", "r", "t">>), Lit(<<"p", "e", "r", "s", "i", "s", "t">>), Lit(<<"m", "e", "r", "g", "e">>),
                Lit(<<"u", "p", "d", "a", "t", "e">>)>>),
          Star(SPACE), Lit(<<"(">>)>>)
TIME_CALLS ==
    Cat(<<WORD_B,
          Alt(<<Lit(<<"S", "y", "s", "t", "e", "m", ".", "c", "u", "r", "r", "e", "n", "t", "T", "i", "m", "e", "M", "i", "l", "l", "i", "s">>), Lit(<<"L", "o", "c", "a", "l", "D", "a", "t", "e", "T", "i", "m", "e", ".", "n", "o", "w">>),
                Lit(<<"I", "n", "s", "t", "a", "n", "t", ".", "n", "o", "w">>),
                Cat(<<Lit(<<"n", "e", "w">>), Plus(SPACE), Lit(<<"D", "a", "t", "e">>), Star(SPACE),
                      Lit(<<"(">>)>>)>>)>>)
RAND_CALLS ==
    Cat(<<WORD_B,
          Alt(<<Cat(<<Lit(<<"R", "a", "n", "d", "o", "m">>), Star(SPACE), Lit(<<"(">>)>>),
                Lit(<<"M", "a", "t", "h", ".", "r", "a", "n", "d", "o", "m", "(", ")">>)>>)>>)
STATIC_STATE ==
    Cat(<<WORD_B, Lit(<<"s", "t", "a", "t", "i", "c">>), WORD_B,
          NotAhead(Cat(<<Plus(SPACE), Lit(<<"f", "i", "n", "a", "l">>), WORD_B>>)),
          Star(NotSet({";", "="})), Lit(<<"=">>)>>)
\* compiled with re.IGNORECASE
LOGGER_HINT ==
    Alt(<<Cat(<<WORD_B, Lit(<<"L", "o", "g", "g", "e", "r">>), WORD_B>>),
          Cat(<<WORD_B, Lit(<<"S", "l", "f", "4", "j">>), WORD_B>>),
          Cat(<<WORD_B, Lit(<<"L", "o", "g", "F", "a", "c", "t", "o", "r", "y">>), WORD_B>>)>>)

\* fault variant: one of the two patterns is enough
PostWriteEither(post, write) == post \/ write
\* line 14
PostWrite(post, write) == post /\ write
\* heuristics_idempotency.scan: the rule ids of the findings, in order
IdempotencyScan(src) ==
    (IF PostWrite(Found(POST_MAPPING, src, TRUE), Found(DB_WRITE, src, TRUE))
     THEN <<"POST_WRITE_NO_IDEMPOTENCY_HINT">> ELSE <<>>)
    \o (IF Found(TIME_CALLS, src, FALSE) /\ Found(RAND_CALLS, src, FALSE)
        THEN <<"NON_DETERMINISM">> ELSE <<>>)
    \o (IF Found(STATIC_STATE, src, FALSE) /\ ~Found(LOGGER_HINT, src, TRUE)
        THEN <<"STATIC_STATE_MUTATION">> ELSE <<>>)

\* =========================================================================
\* Specification SpecIdempotency: heuristics_idempotency.scan on a text
\* =========================================================================
\* unit is the sequence of the lines the text is written from
MaxLines == 3
Txt_Post   == <<"@", "P", "o", "s", "t", "M", "a", "p", "p", "i", "n", "g", "\n">>
Txt_RPost  == <<"@", "R", "e", "q", "u", "e", "s", "t", "M", "a", "p", "p", "i", "n", "g", "(", "p", "a", "t", "h", "=", "P", ",", " ", "m", "e", "t", "h", "o", "d", " ", "=", " ", "R", "e", "q", "u", "e", "s", "t", "M", "e", "t", "h", "o", "d", ".", "P", "O", "S", "T", ")", "\n">>
Txt_Write  == <<"o", "r", "d", "e", "r", "R", "e", "p", "o", ".", "s", "a", "v", "e", "(", "o", "r", "d", "e", "r", ")", ";", "\n">>
Txt_Time   == <<"t", "=", "I", "n", "s", "t", "a", "n", "t", ".", "n", "o", "w", "(", ")", ";", "\n">>
Txt_Rand   == <<"r", "=", "M", "a", "t", "h", ".", "r", "a", "n", "d", "o", "m", "(", ")", ";", "\n">>
Txt_Static == <<"s", "t", "a", "t", "i", "c", " ", "i", "n", "t", " ", "n", "=", "0", ";", "\n">>
IdemLines == {"post", "rpost", "write", "time", "rand", "static"}
IdemLineText(l) ==
    CASE l = "post" -> Txt_Post [] l = "rpost" -> Txt_RPost
      [] l = "write" -> Txt_Write [] l = "time" -> Txt_Time
      [] l = "rand" -> Txt_Rand [] l = "static" -> Txt_Static
IdemText(u) == Join([i \in 1..Len(u) |-> IdemLineText(u[i])])

InitIdempotency ==
    /\ unit \in {Some(u) : u \in SeqsUpTo(IdemLines, MaxLines)}
    /\ java_source = IdemText(Val(unit))
    /\ blocks = None /\ findings = None /\ metrics = None /\ loc = None
    /\ ResolverIdle /\ CohesionIdle /\ SeverityIdle /\ MainIdle /\ ReportIdle

ScanIdempotency ==
    /\ IsNone(findings)
    /\ findings' = Some(IdempotencyScan(java_source))
    /\ UNCHANGED <<java_source, unit, blocks, metrics, loc, resolverVars,
                   cohesionVars, severityVars, mainVars, reportVars>>

NextIdempotency == ScanIdempotency
SpecIdempotency == InitIdempotency /\ [][NextIdempotency]_vars

\* -------------------------------------------------------------- claims
HasLine(ls) == \E i \in 1..Len(Val(unit)) : Val(unit)[i] \in ls

\* C17: POST_WRITE_NO_IDEMPOTENCY_HINT is emitted once when the text has
\* both a POST-handler annotation and a persistence-write call and not at
\* all otherwise, whatever the other two rules do; a text with @PostMapping
\* and orderRepo.save(order) has it, the same text without the call has not.
C17_PostWriteIffBoth ==
    ~IsNone(findings) =>
        CountIn(Val(findings), "POST_WRITE_NO_IDEMPOTENCY_HINT")
            = IF HasLine({"post", "rpost"}) /\ HasLine({"write"}) THEN 1 ELSE 0

C17_Witness ==
    /\ ~IsNone(findings)
    /\ Val(unit) = <<"post", "write", "static">>
    /\ Val(findings) = <<"POST_WRITE_NO_IDEMPOTENCY_HINT", "STATIC_STATE_MUTATION">>

\* =========================================================================
\* Specification SpecBlocks: _extract_class_blocks on a text
\* =========================================================================
\* unit is the sequence of the pieces the text is written from: a class
\* header, an enum header, an opening brace, a closing brace, a statement
MaxPieces == 5
Txt_ClassA == <<" ", "c", "l", "a", "s", "s", " ", "A", " ">>
Txt_EnumB  == <<" ", "e", "n", "u", "m", " ", "B", " ">>
Txt_Stmt   == <<"x", ";">>
Pieces == {"class", "enum", "{", "}", "x"}
PieceText(c) ==
    CASE c = "class" -> Txt_ClassA [] c = "enum" -> Txt_EnumB
      [] c = "{" -> <<"{">> [] c = "}" -> <<"}">> [] c = "x" -> Txt_Stmt
PiecesText(u) == Join([i \in 1..Len(u) |-> PieceText(u[i])])

InitBlocks ==
    /\ unit \in {Some(u) : u \in SeqsUpTo(Pieces, MaxPieces)}
    /\ java_source = PiecesText(Val(unit))
    /\ blocks = None /\ findings = None /\ metrics = None /\ loc = None
    /\ ResolverIdle /\ CohesionIdle /\ SeverityIdle /\ MainIdle /\ ReportIdle

ExtractBlocks ==
    /\ IsNone(blocks)
    /\ blocks' = Some(ExtractClassBlocks(java_source))
    /\ UNCHANGED <<java_source, unit, findings, metrics, loc, resolverVars,
                   cohesionVars, severityVars, mainVars, reportVars>>

NextBlocks == ExtractBlocks
SpecBlocks == InitBlocks /\ [][NextBlocks]_vars

\* -------------------------------------------------------------- claims
\* position of the first character of piece k
Offset(k) == Len(PiecesText(SubSeq(Val(unit), 1, k - 1)))
IsHeader(k) == Val(unit)[k] \in {"class", "enum"}
OpensAfter(k) == {j \in (k + 1)..Len(Val(unit)) : Val(unit)[j] = "{"}
FirstOpen(k) == CHOOSE j \in OpensAfter(k) : \A h \in OpensAfter(k) : j <= h
\* brace depth counted from the brace at piece j, after piece c
DepthAfter(j, c) ==
    1 + Cardinality({h \in (j + 1)..c : Val(unit)[h] = "{"})
      - Cardinality({h \in (j + 1)..c : Val(unit)[h] = "}"})
Closers(j) == {c \in (j + 1)..Len(Val(unit)) : DepthAfter(j, c) = 0}
ExpectedBlock(k) ==
    LET j == FirstOpen(k) IN
    [kind |-> IF Val(unit)[k] = "class" THEN Str_class ELSE Str_enum,
     name |-> IF Val(unit)[k] = "class" THEN <<"A">> ELSE <<"B">>,
     s |-> Offset(j) + 1,
     e |-> IF Closers(j) = {} THEN Len(java_source)
           ELSE Offset(CHOOSE c \in Closers(j) : \A h \in Closers(j) : c <= h)]
ExpectedBlocks ==
    LET ks == SelectSeq([k \in 1..Len(Val(unit)) |-> k],
                        LAMBDA k : IsHeader(k) /\ OpensAfter(k) # {})
    IN [n \in 1..Len(ks) |-> ExpectedBlock(ks[n])]

\* C18: the blocks are, in the order of the headers, one per header that
\* has a '{' after it and none for the others; a block starts right after
\* the first '{' that follows its header and ends at the '}' where the
\* depth counted from that '{' first returns to zero, or at len(source)
\* when it never does; start <= end <= len(source).
C18_OneBlockPerHeader ==
    ~IsNone(blocks) =>
        /\ Val(blocks) = ExpectedBlocks
        /\ \A n \in 1..Len(Val(blocks)) :
              /\ Val(blocks)[n].s <= Val(blocks)[n].e
              /\ Val(blocks)[n].e <= Len(java_source)

C18_Witness ==
    /\ ~IsNone(blocks)
    /\ Val(unit) = <<"class", "{", "enum", "{", "}">>
    /\ Len(Val(blocks)) = 2
    /\ Val(blocks)[1].name = <<"A">> /\ Val(blocks)[1].e = Len(java_source)
    /\ Val(blocks)[2].name = <<"B">> /\ Val(blocks)[2].e = Len(java_source) - 1
    /\ Val(blocks)[2].s = Val(blocks)[2].e

\* =========================================================================
\* analyzer/metrics.py: count_loc
\* =========================================================================
\* str.splitlines(): the lines without their ends; "\n", "\r", "\r\n" and
\* "\f" end a line, and a text that ends with a line end has no further
\* empty line
LINE_ENDS == {"\n", "\r", "\f"}
RECURSIVE SplitLines(_)
SplitLines(src) ==
    IF src = <<>> THEN <<>>
    ELSE LET ends == {i \in 1..Len(src) : src[i] \in LINE_ENDS}
             i    == IF ends = {} THEN Len(src) + 1
                     ELSE CHOOSE e \in ends : \A h \in ends : e <= h
             j    == IF i < Len(src) /\ src[i] = "\r" /\ src[i + 1] = "\n"
                     THEN i + 1 ELSE i
         IN <<SubSeq(src, 1, i - 1)>> \o SplitLines(SubSeq(src, j + 1, Len(src)))
\* str.strip()
Strip(line) ==
    LET ink == {i \in 1..Len(line) : line[i] \notin SPACE_CHARS}
    IN IF ink = {} THEN <<>>
       ELSE SubSeq(line, CHOOSE a \in ink : \A h \in ink : a <= h,
                         CHOOSE b \in ink : \A h \in ink : b >= h)
StartsWith(s, prefix) == LitAt(prefix, s, 0, FALSE)
EndsWith(s, suffix) ==
    Len(suffix) <= Len(s) /\ LitAt(suffix, s, Len(s) - Len(suffix), FALSE)
Contains(s, sub) == \E i \in 0..Len(s) : LitAt(sub, s, i, FALSE)
Str_Open  == <<"/", "*">>
Str_Close == <<"*", "/">>
Str_Slashes == <<"/", "/">>

\* fault variant: a stripped line of 3 characters closes its comment
ClosedOnItsLineFromThree(s) == EndsWith(s, Str_Close) /\ Len(s) >= 3
\* line 21
ClosedOnItsLine(s) == EndsWith(s, Str_Close) /\ Len(s) > 3
\* lines 16-29, one turn of the for: st is [logical, in_block]
LocStep(st, line) ==
    LET s == Strip(line) IN
    IF ~st.in_block
    THEN IF StartsWith(s, Str_Open)
         THEN [st EXCEPT !.in_block = ~ClosedOnItsLine(s)]
         ELSE IF StartsWith(s, Str_Slashes) \/ s = <<>> THEN st
         ELSE [st EXCEPT !.logical = @ + 1]
    ELSE IF Contains(s, Str_Close) THEN [st EXCEPT !.in_block = FALSE] ELSE st
RECURSIVE LocLoop(_, _)
LocLoop(st, lines) ==
    IF lines = <<>> THEN st ELSE LocLoop(LocStep(st, Head(lines)), Tail(lines))
CountLoc(src) ==
    LET lines == SplitLines(src)
    IN [total |-> Len(lines),
        logical |-> LocLoop([logical |-> 0, in_block |-> FALSE], lines).logical]

\* =========================================================================
\* Specification SpecLoc: count_loc on a text
\* =========================================================================
\* unit is the sequence of the lines the text is written from and whether
\* the last line has its line end
MaxLocLines == 3
LineKinds ==
    {"empty", "blank", "code", "line_comment", "open", "slash_star_slash",
     "closed", "close", "close_code", "comment_code"}
LineText(k) ==
    CASE k = "empty" -> <<>>
      [] k = "blank" -> <<" ", " ">>
      [] k = "code" -> <<" ", "x", ";">>
      [] k = "line_comment" -> <<"/", "/", "c">>
      [] k = "open" -> <<"/", "*">>
      [] k = "slash_star_slash" -> <<"/", "*", "/">>
      [] k = "closed" -> <<"/", "*", "*", "/">>
      [] k = "close" -> <<"*", "/">>
      [] k = "close_code" -> <<"c", "*", "/", "x">>
      [] k = "comment_code" -> <<" ", "/", "*", "c", "*", "/", " ", "x">>
LocText(u) ==
    LET n == Len(u.lines)
    IN Join([i \in 1..n |-> LineText(u.lines[i])
                            \o (IF i < n \/ u.eol THEN <<"\n">> ELSE <<>>)])
LocUnits ==
    {u \in [lines : SeqsUpTo(LineKinds, MaxLocLines), eol : BOOLEAN] :
        ~u.eol => (u.lines # <<>> /\ Last(u.lines) # "empty")}

InitLoc ==
    /\ unit \in {Some(u) : u \in LocUnits}
    /\ java_source = LocText(Val(unit))
    /\ blocks = None /\ findings = None /\ metrics = None /\ loc = None
    /\ ResolverIdle /\ CohesionIdle /\ SeverityIdle /\ MainIdle /\ ReportIdle

CountLines ==
    /\ IsNone(loc)
    /\ loc' = Some(CountLoc(java_source))
    /\ UNCHANGED <<java_source, unit, blocks, findings, metrics, resolverVars,
                   cohesionVars, severityVars, mainVars, reportVars>>

NextLoc == CountLines
SpecLoc == InitLoc /\ [][NextLoc]_vars

\* -------------------------------------------------------------- claims
\* what the claim says of each kind of line: it opens a block comment, it
\* holds a comment end, it counts when the scanner is outside a comment
Opens(k)     == k \in {"open", "slash_star_slash", "comment_code"}
HasClose(k)  == k \in {"slash_star_slash", "closed", "close", "close_code",
                       "comment_code"}
Countable(k) == k \in {"code", "close", "close_code"}
\* the scanner is inside a block comment when it reaches line i
RECURSIVE InBlockAt(_)
InBlockAt(i) ==
    IF i = 1 THEN FALSE
    ELSE IF InBlockAt(i - 1) THEN ~HasClose(Val(unit).lines[i - 1])
    ELSE Opens(Val(unit).lines[i - 1])
LogicalLines ==
    {i \in 1..Len(Val(unit).lines) : ~InBlockAt(i) /\ Countable(Val(unit).lines[i])}

\* C19: count_loc returns total = the number of lines and logical = the
\* number of lines that are outside a block comment, not empty after
\* stripping and start with neither // nor /*; 0 <= logical <= total.
C19_LocCounts ==
    ~IsNone(loc) =>
        /\ Val(loc).total = Len(Val(unit).lines)
        /\ Val(loc).logical = Cardinality(LogicalLines)
        /\ 0 <= Val(loc).logical /\ Val(loc).logical <= Val(loc).total

C19_Witness ==
    /\ ~IsNone(loc)
    /\ Val(unit).lines = <<"slash_star_slash", "close_code", "code">>
    /\ Val(loc) = [total |-> 3, logical |-> 1]

====
